---- MODULE Spec2Model ----
(***************************************************************************)
(* A model of the GARMIN.SET settings codec of parser.py: the length-      *)
(* prefixed ASCII string, the offset-indexed string table, the typed       *)
(* property record and the property collection with its binary import and *)
(* export.                                                                 *)
(*                                                                         *)
(* Representation.  A byte is a number 0..255 and a buffer a sequence of   *)
(* bytes.  Text is a sequence of character codes.  A SettingString is      *)
(* represented by its attribute `string` (the text with trailing NULs      *)
(* stripped), which is what __eq__ and __hash__ read.  A Python dict is a  *)
(* function; an exception is an error name in a field `err` ("" when the   *)
(* call returns normally).  A Python int is unbounded: it is a sign and a  *)
(* big-endian magnitude in base 256, so that values beyond 32 and 64 bits  *)
(* exist in the model.  A Python float is its IEEE-754 binary64 image.     *)
(***************************************************************************)
EXTENDS Integers, Sequences, FiniteSets, TLC

VARIABLES
    table,          \* a stand-alone SettingStringTable
    properties,     \* GarminProperties._properties
    string_table,   \* GarminProperties._string_table
    buf,            \* the binary buffer handed to the importer
    parsed,         \* the outcome of the last import or export
    last            \* the last call: its name, its arguments and its exception

vars == <<table, properties, string_table, buf, parsed, last>>

(***************************************************************************)
(* Bounds of the model.                                                    *)
(***************************************************************************)
MaxStrings == 3     \* strings a stand-alone table may hold
MaxProps == 3       \* properties a collection may hold
MaxFileStrings == 2 \* string entries in the table of an input file
MaxFileRecords == 2 \* property records in an input file
MaxFlipProps == 1   \* properties of a file whose magic is flipped
MaxBadStrings == 1  \* string entries of a file with a defect in its frame
MaxBadRecords == 1  \* property records of a file with a defect in its frame

(***************************************************************************)
(* Bytes and fixed-width integers (struct.pack / struct.unpack).           *)
(***************************************************************************)
NUL == 0
ASCII_LIMIT == 128
BYTE == 256
SIGN_BIT == 128

RECURSIVE Pow(_, _)
Pow(b, e) == IF e = 0 THEN 1 ELSE b * Pow(b, e - 1)

\* The element of a one-element set. Once({F(x) : x \in {e}}) is F(e) with e
\* evaluated a single time, as a local variable of the code is assigned once.
Once(S) == CHOOSE x \in S : TRUE

\* struct.pack('>H' | '>I' | '>B', n) for 0 <= n: w bytes, most significant first.
PackUnsigned(n, w) == [i \in 1..w |-> (n \div Pow(BYTE, w - i)) % BYTE]

\* Whether struct.pack of an unsigned w-byte field accepts n (n is below 2^31 in
\* every state of the model, so only the 1- and 2-byte fields can refuse).
FitsUnsigned(n, w) == n >= 0 /\ (w >= 4 \/ n < Pow(BYTE, w))

\* struct.unpack of an unsigned field whose value is below 2^31.
RECURSIVE UnpackUnsigned(_)
UnpackUnsigned(bs) ==
    IF bs = <<>> THEN 0
    ELSE UnpackUnsigned(SubSeq(bs, 1, Len(bs) - 1)) * BYTE + bs[Len(bs)]

\* A 4-byte unsigned field of 2^31 or more: larger than any buffer of the model.
Huge(bs) == Len(bs) = 4 /\ bs[1] >= SIGN_BIT

RECURSIVE StripZeros(_)
StripZeros(bs) ==
    IF bs = <<>> \/ bs[1] # 0 THEN bs ELSE StripZeros(Tail(bs))

PadLeft(bs, w) ==
    [i \in 1..w |-> IF i <= w - Len(bs) THEN 0 ELSE bs[i - (w - Len(bs))]]

Invert(bs) == [i \in 1..Len(bs) |-> 255 - bs[i]]

RECURSIVE IncBytes(_)
IncBytes(bs) ==
    IF bs = <<>> THEN <<>>
    ELSE IF bs[Len(bs)] = 255
         THEN IncBytes(SubSeq(bs, 1, Len(bs) - 1)) \o <<0>>
         ELSE SubSeq(bs, 1, Len(bs) - 1) \o <<bs[Len(bs)] + 1>>

RECURSIVE DecBytes(_)
DecBytes(bs) ==
    IF bs = <<>> THEN <<>>
    ELSE IF bs[Len(bs)] = 0
         THEN DecBytes(SubSeq(bs, 1, Len(bs) - 1)) \o <<255>>
         ELSE SubSeq(bs, 1, Len(bs) - 1) \o <<bs[Len(bs)] - 1>>

\* A Python int: neg is its sign, mag its magnitude (no leading zero byte).
PyInt(neg, mag) == [neg |-> neg, mag |-> mag]

\* Whether struct.pack('>i' | '>q', v) accepts v: -2^(8w-1) <= v < 2^(8w-1).
FitsSigned(v, w) ==
    \/ Len(v.mag) < w
    \/ /\ Len(v.mag) = w
       /\ \/ v.mag[1] < SIGN_BIT
          \/ /\ v.neg
             /\ v.mag[1] = SIGN_BIT
             /\ \A i \in 2..w : v.mag[i] = 0

\* struct.pack('>i' | '>q', v): two's complement, most significant byte first.
PackSigned(v, w) ==
    IF v.neg THEN Invert(DecBytes(PadLeft(v.mag, w)))
    ELSE PadLeft(v.mag, w)

\* struct.unpack('>i' | '>q', bs).
UnpackSigned(bs) ==
    IF bs[1] < SIGN_BIT THEN PyInt(FALSE, StripZeros(bs))
    ELSE PyInt(TRUE, StripZeros(IncBytes(Invert(bs))))

(***************************************************************************)
(* SettingString (parser.py 19-66).                                        *)
(***************************************************************************)
LEN_FIELD_SIZE == 2

IsAscii(text) == \A i \in 1..Len(text) : text[i] < ASCII_LIMIT

\* str.rstrip('\x00')
RECURSIVE RStripNul(_)
RStripNul(text) ==
    IF text = <<>> \/ text[Len(text)] # NUL THEN text
    ELSE RStripNul(SubSeq(text, 1, Len(text) - 1))

\* SettingString(text): the constructor's str branch.
SettingString(text) ==
    IF IsAscii(text) THEN [err |-> "", string |-> RStripNul(text)]
    ELSE [err |-> "UnicodeEncodeError", string |-> <<>>]

strlen(s) == Len(s) + 1

\* Mutant of SettingString.bytes: the prefix counts the characters without
\* the terminator.
StringBytes_bareLength(s) ==
    IF FitsUnsigned(Len(s), LEN_FIELD_SIZE)
    THEN [err |-> "", bytes |-> PackUnsigned(Len(s), LEN_FIELD_SIZE) \o s \o <<NUL>>]
    ELSE [err |-> "struct.error", bytes |-> <<>>]

\* SettingString.bytes
StringBytes(s) ==
    IF FitsUnsigned(strlen(s), LEN_FIELD_SIZE)
    THEN [err |-> "", bytes |-> PackUnsigned(strlen(s), LEN_FIELD_SIZE) \o s \o <<NUL>>]
    ELSE [err |-> "struct.error", bytes |-> <<>>]

\* SettingString.size
StringSize(s) == Len(StringBytes(s).bytes)

\* file.read(n) at position pos of data (pos counts the bytes already read).
Read(data, pos, n) ==
    SubSeq(data, pos + 1, IF pos + n <= Len(data) THEN pos + n ELSE Len(data))

\* SettingString(file): the constructor's buffer branch; pos is the position after.
SettingStringFromFile(data, pos) ==
    LET head == Read(data, pos, LEN_FIELD_SIZE) IN
    IF Len(head) < LEN_FIELD_SIZE
    THEN [err |-> "struct.error", string |-> <<>>, pos |-> pos + Len(head)]
    ELSE LET strLen == UnpackUnsigned(head)
             body == Read(data, pos + LEN_FIELD_SIZE, strLen)
             after == pos + LEN_FIELD_SIZE + Len(body)
         IN IF IsAscii(body)
            THEN [err |-> "", string |-> RStripNul(body), pos |-> after]
            ELSE [err |-> "UnicodeDecodeError", string |-> <<>>, pos |-> after]

(***************************************************************************)
(* SettingStringTable (parser.py 69-185).                                  *)
(***************************************************************************)
EmptyDict == [k \in {} |-> 0]

DictPut(d, k, v) == [x \in (DOMAIN d) \cup {k} |-> IF x = k THEN v ELSE d[x]]

\* SettingStringTable(): lines 71-74.
EmptyTable ==
    [_strings |-> <<>>, _string_to_index |-> EmptyDict,
     _index_to_string |-> EmptyDict, _next_index |-> 0]

\* Mutant of add: the membership test of line 180 is missing.
SettingStringTable_add_noDedup(t, s) ==
    [_strings |-> Append(t._strings, s),
     _string_to_index |-> DictPut(t._string_to_index, s, t._next_index),
     _index_to_string |-> DictPut(t._index_to_string, t._next_index, s),
     _next_index |-> t._next_index + StringSize(s)]

\* Mutant of add: line 183 is missing, so the new string is not entered in
\* the dictionary from offsets to strings.
SettingStringTable_add_oneWay(t, s) ==
    IF s \in DOMAIN t._string_to_index THEN t
    ELSE [_strings |-> Append(t._strings, s),
          _string_to_index |-> DictPut(t._string_to_index, s, t._next_index),
          _index_to_string |-> t._index_to_string,
          _next_index |-> t._next_index + StringSize(s)]

\* SettingStringTable.add
SettingStringTable_add(t, s) ==
    IF s \in DOMAIN t._string_to_index THEN t
    ELSE [_strings |-> Append(t._strings, s),
          _string_to_index |-> DictPut(t._string_to_index, s, t._next_index),
          _index_to_string |-> DictPut(t._index_to_string, t._next_index, s),
          _next_index |-> t._next_index + StringSize(s)]

\* Mutant of the constructor's loop: the membership test of line 105 is missing.
TableInitStep_noDedup(t, s) ==
    [_strings |-> Append(t._strings, s),
     _string_to_index |-> DictPut(t._string_to_index, s, t._next_index),
     _index_to_string |-> DictPut(t._index_to_string, t._next_index, s),
     _next_index |-> t._next_index + StringSize(s)]

\* One turn of the constructor's loop over a list (lines 104-110).
TableInitStep(t, s) ==
    IF s \in DOMAIN t._string_to_index THEN t
    ELSE [_strings |-> Append(t._strings, s),
          _string_to_index |-> DictPut(t._string_to_index, s, t._next_index),
          _index_to_string |-> DictPut(t._index_to_string, t._next_index, s),
          _next_index |-> t._next_index + StringSize(s)]

RECURSIVE TableInitLoop(_, _)
TableInitLoop(t, input) ==
    IF input = <<>> THEN t
    ELSE TableInitLoop(TableInitStep(t, Head(input)), Tail(input))

\* SettingStringTable(list)
SettingStringTable(input) == TableInitLoop(EmptyTable, input)

\* list.remove(x): the list without its first element equal to x.
RECURSIVE ListRemove(_, _)
ListRemove(l, x) ==
    IF l = <<>> THEN <<>>
    ELSE IF Head(l) = x THEN Tail(l)
         ELSE <<Head(l)>> \o ListRemove(Tail(l), x)

InList(l, x) == \E i \in 1..Len(l) : l[i] = x

\* A key of remove / __getitem__ / __contains__: a SettingString or an int.
StrKey(s) == [isInt |-> FALSE, s |-> s, i |-> 0]
IntKey(i) == [isInt |-> TRUE, s |-> <<>>, i |-> i]

\* SettingStringTable.__getitem__: the offset of a string (i) or the string at
\* an offset (s); a key the dictionary does not hold raises KeyError.
SettingStringTable_getitem(t, key) ==
    IF key.isInt
    THEN IF key.i \in DOMAIN t._index_to_string
         THEN [err |-> "", i |-> key.i, s |-> t._index_to_string[key.i]]
         ELSE [err |-> "KeyError", i |-> 0, s |-> <<>>]
    ELSE IF key.s \in DOMAIN t._string_to_index
         THEN [err |-> "", i |-> t._string_to_index[key.s], s |-> key.s]
         ELSE [err |-> "KeyError", i |-> 0, s |-> <<>>]

\* Mutant of remove: the string is deleted but line 174's rebuild is missing,
\* so the strings behind it keep their old offsets.
SettingStringTable_remove_keepOffsets(t, key) ==
    IF key.isInt /\ key.i \notin DOMAIN t._index_to_string
    THEN [err |-> "KeyError", table |-> t]
    ELSE LET s == IF key.isInt THEN t._index_to_string[key.i] ELSE key.s IN
         IF ~InList(t._strings, s)
         THEN [err |-> "ValueError", table |-> t]
         ELSE [err |-> "",
               table |->
                 [_strings |-> ListRemove(t._strings, s),
                  _string_to_index |->
                    [x \in (DOMAIN t._string_to_index) \ {s} |-> t._string_to_index[x]],
                  _index_to_string |->
                    [o \in (DOMAIN t._index_to_string) \ {t._string_to_index[s]} |->
                       t._index_to_string[o]],
                  _next_index |-> t._next_index - StringSize(s)]]

\* Mutant of remove: a key the table does not hold is ignored silently.
SettingStringTable_remove_silent(t, key) ==
    IF key.isInt /\ key.i \notin DOMAIN t._index_to_string
    THEN [err |-> "", table |-> t]
    ELSE LET s == IF key.isInt THEN t._index_to_string[key.i] ELSE key.s IN
         IF ~InList(t._strings, s)
         THEN [err |-> "", table |-> t]
         ELSE [err |-> "", table |-> SettingStringTable(ListRemove(t._strings, s))]

\* SettingStringTable.remove
SettingStringTable_remove(t, key) ==
    IF key.isInt /\ key.i \notin DOMAIN t._index_to_string
    THEN [err |-> "KeyError", table |-> t]
    ELSE LET s == IF key.isInt THEN t._index_to_string[key.i] ELSE key.s IN
         IF ~InList(t._strings, s)
         THEN [err |-> "ValueError", table |-> t]
         ELSE [err |-> "", table |-> SettingStringTable(ListRemove(t._strings, s))]

RECURSIVE SumSizes(_)
SumSizes(l) == IF l = <<>> THEN 0 ELSE StringSize(Head(l)) + SumSizes(Tail(l))

\* SettingStringTable.size
SettingStringTable_size(t) ==
    IF t._next_index = SumSizes(t._strings)
    THEN [err |-> "", size |-> SumSizes(t._strings)]
    ELSE [err |-> "AssertionError", size |-> 0]

RECURSIVE ConcatStringBytes(_)
ConcatStringBytes(l) ==
    IF l = <<>> THEN <<>>
    ELSE StringBytes(Head(l)).bytes \o ConcatStringBytes(Tail(l))

\* SettingStringTable._bytesOnlyStringTable
bytesOnlyStringTable(t) ==
    IF \E i \in 1..Len(t._strings) : StringBytes(t._strings[i]).err # ""
    THEN [err |-> "struct.error", bytes |-> <<>>]
    ELSE [err |-> "", bytes |-> ConcatStringBytes(t._strings)]

\* SettingStringTable.bytes
SettingStringTable_bytes(t) ==
    LET sz == SettingStringTable_size(t)
        body == bytesOnlyStringTable(t)
    IN IF body.err # "" THEN [err |-> body.err, bytes |-> <<>>]
       ELSE IF sz.err # "" THEN [err |-> sz.err, bytes |-> <<>>]
       ELSE [err |-> "", bytes |-> PackUnsigned(sz.size, 4) \o body.bytes]

(***************************************************************************)
(* PropertyType and the per-type packing (parser.py 188-226).              *)
(***************************************************************************)
INT32 == 1
FLOAT32 == 2
PT_STRING == 3
PT_BOOLEAN == 9
LONG64 == 14
DOUBLE64 == 15

PropertyTypes == {INT32, FLOAT32, PT_STRING, PT_BOOLEAN, LONG64, DOUBLE64}

\* getPropertyTypeStructPack: the width, the struct format and the Python type.
getPropertyTypeStructPack(type) ==
    CASE type = INT32 -> [numBytes |-> 4, pack |-> ">i", typ |-> "int"]
      [] type = FLOAT32 -> [numBytes |-> 4, pack |-> ">f", typ |-> "float"]
      [] type = PT_STRING -> [numBytes |-> 4, pack |-> ">I", typ |-> "SettingString"]
      [] type = PT_BOOLEAN -> [numBytes |-> 1, pack |-> "?", typ |-> "bool"]
      [] type = LONG64 -> [numBytes |-> 8, pack |-> ">q", typ |-> "int"]
      [] type = DOUBLE64 -> [numBytes |-> 8, pack |-> ">d", typ |-> "float"]

(***************************************************************************)
(* Python values.  k is type(value); v is the payload as a sequence of     *)
(* numbers: sign then magnitude for an int, 0 or 1 for a bool, the text    *)
(* for a SettingString or a str, the binary64 image for a float.           *)
(***************************************************************************)
IntValue(neg, mag) == [k |-> "int", v |-> <<IF neg THEN 1 ELSE 0>> \o mag]
BoolValue(b) == [k |-> "bool", v |-> <<IF b THEN 1 ELSE 0>>]
StringValue(s) == [k |-> "SettingString", v |-> s]
StrValue(text) == [k |-> "str", v |-> text]
FloatValue(d) == [k |-> "float", v |-> d]

AsPyInt(val) == PyInt(val.v[1] = 1, Tail(val.v))
FromPyInt(n) == IntValue(n.neg, n.mag)

(***************************************************************************)
(* IEEE-754: struct.pack('>f', x) rounds a binary64 to the nearest         *)
(* binary32 (ties to even) and refuses a finite value that rounds beyond   *)
(* the binary32 range; struct.unpack('>f', b) widens exactly.  Zero and    *)
(* the values whose binary32 image is normal are modelled.                 *)
(***************************************************************************)
FloatSign(d) == d[1] \div 128
FloatExp(d) == (d[1] % 128) * 16 + d[2] \div 16
FloatMantHigh(d) == (d[2] % 16) * 524288 + d[3] * 2048 + d[4] * 8 + d[5] \div 32
FloatRestHead(d) == d[5] % 32
FloatRestTailZero(d) == d[6] = 0 /\ d[7] = 0 /\ d[8] = 0
FloatIsZero(d) == FloatExp(d) = 0 /\ FloatMantHigh(d) = 0 /\ FloatRestHead(d) = 0 /\ FloatRestTailZero(d)

FloatRoundsUp(d) ==
    \/ FloatRestHead(d) > 16
    \/ FloatRestHead(d) = 16 /\ ~FloatRestTailZero(d)
    \/ FloatRestHead(d) = 16 /\ FloatRestTailZero(d) /\ FloatMantHigh(d) % 2 = 1

Float32Image(sign, exp, mant) ==
    <<sign * 128 + exp \div 2, (exp % 2) * 128 + mant \div 65536,
      (mant \div 256) % 256, mant % 256>>

\* struct.pack('>f', d)
PackFloat32(d) ==
    IF FloatIsZero(d) THEN [err |-> "", bytes |-> <<FloatSign(d) * 128, 0, 0, 0>>]
    ELSE LET raw == FloatMantHigh(d) + (IF FloatRoundsUp(d) THEN 1 ELSE 0)
             carry == raw = 8388608
             mant == IF carry THEN 0 ELSE raw
             exp == FloatExp(d) - 896 + (IF carry THEN 1 ELSE 0)
         IN CASE exp >= 255 -> [err |-> "OverflowError", bytes |-> <<>>]
              [] exp \in 1..254 ->
                   [err |-> "", bytes |-> Float32Image(FloatSign(d), exp, mant)]

\* struct.unpack('>f', b)
UnpackFloat32(b) ==
    LET sign == b[1] \div 128
        exp == (b[1] % 128) * 2 + b[2] \div 128
        mant == (b[2] % 128) * 65536 + b[3] * 256 + b[4]
    IN CASE exp = 0 /\ mant = 0 -> <<sign * 128, 0, 0, 0, 0, 0, 0, 0>>
         [] exp \in 1..254 ->
              <<sign * 128 + (exp + 896) \div 16,
                ((exp + 896) % 16) * 16 + mant \div 524288,
                (mant \div 2048) % 256, (mant \div 8) % 256, (mant % 8) * 32,
                0, 0, 0>>

\* bool(value), as the '?' format applies it.
Truthy(val) ==
    CASE val.k = "bool" -> val.v[1] = 1
      [] val.k = "int" -> Len(val.v) > 1
      [] val.k \in {"SettingString", "str"} -> val.v # <<>>
      [] val.k = "float" -> ~FloatIsZero(val.v)

\* struct.pack(fmt, value) for a property value.
StructPackValue(fmt, val) ==
    CASE fmt = ">i" /\ val.k = "int" ->
           IF FitsSigned(AsPyInt(val), 4)
           THEN [err |-> "", bytes |-> PackSigned(AsPyInt(val), 4)]
           ELSE [err |-> "struct.error", bytes |-> <<>>]
      [] fmt = ">q" /\ val.k = "int" ->
           IF FitsSigned(AsPyInt(val), 8)
           THEN [err |-> "", bytes |-> PackSigned(AsPyInt(val), 8)]
           ELSE [err |-> "struct.error", bytes |-> <<>>]
      [] fmt = "?" -> [err |-> "", bytes |-> <<IF Truthy(val) THEN 1 ELSE 0>>]
      [] fmt = ">f" /\ val.k = "float" -> PackFloat32(val.v)
      [] fmt = ">d" /\ val.k = "float" -> [err |-> "", bytes |-> val.v]

\* struct.unpack(fmt, bytes) for a property value.
StructUnpackValue(fmt, bytes) ==
    CASE fmt \in {">i", ">q"} -> FromPyInt(UnpackSigned(bytes))
      [] fmt = "?" -> BoolValue(bytes[1] # 0)
      [] fmt = ">f" -> FloatValue(UnpackFloat32(bytes))
      [] fmt = ">d" -> FloatValue(bytes)

(***************************************************************************)
(* Property (parser.py 229-276).                                           *)
(***************************************************************************)
Property(name, type, value) == [name |-> name, type |-> type, value |-> value]

\* SettingStringTable.__contains__ / __getitem__ for a string key.
TableHasString(t, s) == s \in DOMAIN t._string_to_index
\* SettingStringTable.__contains__ for a number.
TableHasIndex(t, i) == i \in DOMAIN t._index_to_string

\* Mutant of Property.bytes: the assertions of lines 243-244 are missing and a
\* string value the table lacks is written as offset 0.
Property_bytes_noValueCheck(prop, stringTable) ==
    IF ~TableHasString(stringTable, prop.name)
    THEN [err |-> "AssertionError", bytes |-> <<>>]
    ELSE LET pack == getPropertyTypeStructPack(prop.type).pack
             tag == PackUnsigned(prop.type, 1)
             head == PackUnsigned(PT_STRING, 1)
                       \o PackUnsigned(stringTable._string_to_index[prop.name], 4)
         IN IF prop.type = PT_STRING
            THEN [err |-> "",
                  bytes |-> head \o tag
                    \o PackUnsigned(IF TableHasString(stringTable, prop.value.v)
                                    THEN stringTable._string_to_index[prop.value.v]
                                    ELSE 0, 4)]
            ELSE LET val == StructPackValue(pack, prop.value) IN
                 IF val.err # "" THEN [err |-> val.err, bytes |-> <<>>]
                 ELSE [err |-> "", bytes |-> head \o tag \o val.bytes]

\* Mutant of Property.bytes: the record opens with the value's type tag
\* instead of the STRING marker.
Property_bytes_tagAsMarker(prop, stringTable) ==
    IF ~TableHasString(stringTable, prop.name)
    THEN [err |-> "AssertionError", bytes |-> <<>>]
    ELSE LET pack == getPropertyTypeStructPack(prop.type).pack
             tag == PackUnsigned(prop.type, 1)
             head == tag \o PackUnsigned(stringTable._string_to_index[prop.name], 4)
         IN IF prop.type = PT_STRING
            THEN IF prop.value.k # "SettingString"
                      \/ ~TableHasString(stringTable, prop.value.v)
                 THEN [err |-> "AssertionError", bytes |-> <<>>]
                 ELSE [err |-> "",
                       bytes |-> head \o tag
                         \o PackUnsigned(stringTable._string_to_index[prop.value.v], 4)]
            ELSE LET val == StructPackValue(pack, prop.value) IN
                 IF val.err # "" THEN [err |-> val.err, bytes |-> <<>>]
                 ELSE [err |-> "", bytes |-> head \o tag \o val.bytes]

\* Property.bytes(stringTable)
Property_bytes(prop, stringTable) ==
    IF ~TableHasString(stringTable, prop.name)
    THEN [err |-> "AssertionError", bytes |-> <<>>]
    ELSE LET pack == getPropertyTypeStructPack(prop.type).pack
             tag == PackUnsigned(prop.type, 1)
             head == PackUnsigned(PT_STRING, 1)
                       \o PackUnsigned(stringTable._string_to_index[prop.name], 4)
         IN IF prop.type = PT_STRING
            THEN IF prop.value.k # "SettingString"
                      \/ ~TableHasString(stringTable, prop.value.v)
                 THEN [err |-> "AssertionError", bytes |-> <<>>]
                 ELSE [err |-> "",
                       bytes |-> head \o tag
                         \o PackUnsigned(stringTable._string_to_index[prop.value.v], 4)]
            ELSE LET val == StructPackValue(pack, prop.value) IN
                 IF val.err # "" THEN [err |-> val.err, bytes |-> <<>>]
                 ELSE [err |-> "", bytes |-> head \o tag \o val.bytes]

NoProperty == Property(<<>>, INT32, IntValue(FALSE, <<>>))

ParseFail(e, pos) == [err |-> e, prop |-> NoProperty, pos |-> pos]

\* Mutant of parsePropertyFromBinary: the assertion of line 271 is missing and
\* a value offset the table lacks yields the empty string.
parsePropertyFromBinary_noValueCheck(data, pos, stringTable) ==
    LET b1 == Read(data, pos, 1)
        nameBytes == Read(data, pos + 1, 4)
        b2 == Read(data, pos + 5, 1)
    IN
    IF Len(b1) < 1 THEN ParseFail("struct.error", pos)
    ELSE IF b1[1] \notin PropertyTypes THEN ParseFail("ValueError", pos + 1)
    ELSE IF b1[1] # PT_STRING THEN ParseFail("AssertionError", pos + 1)
    ELSE IF Len(nameBytes) < 4 THEN ParseFail("struct.error", pos + 1 + Len(nameBytes))
    ELSE IF Huge(nameBytes) \/ ~TableHasIndex(stringTable, UnpackUnsigned(nameBytes))
         THEN ParseFail("AssertionError", pos + 5)
    ELSE IF Len(b2) < 1 THEN ParseFail("struct.error", pos + 5)
    ELSE IF b2[1] \notin PropertyTypes THEN ParseFail("ValueError", pos + 6)
    ELSE LET propertyId == stringTable._index_to_string[UnpackUnsigned(nameBytes)]
             how == getPropertyTypeStructPack(b2[1])
             raw == Read(data, pos + 6, how.numBytes)
             end == pos + 6 + Len(raw)
         IN IF Len(raw) < how.numBytes THEN ParseFail("struct.error", end)
            ELSE IF how.typ = "SettingString"
            THEN IF Huge(raw) \/ ~TableHasIndex(stringTable, UnpackUnsigned(raw))
                 THEN [err |-> "",
                       prop |-> Property(propertyId, b2[1], StringValue(<<>>)),
                       pos |-> end]
                 ELSE [err |-> "",
                       prop |-> Property(propertyId, b2[1],
                                  StringValue(stringTable._index_to_string[UnpackUnsigned(raw)])),
                       pos |-> end]
            ELSE [err |-> "",
                  prop |-> Property(propertyId, b2[1], StructUnpackValue(how.pack, raw)),
                  pos |-> end]

\* parsePropertyFromBinary(f, stringTable): pos is the read position of f.
parsePropertyFromBinary(data, pos, stringTable) ==
    LET b1 == Read(data, pos, 1)
        nameBytes == Read(data, pos + 1, 4)
        b2 == Read(data, pos + 5, 1)
    IN
    IF Len(b1) < 1 THEN ParseFail("struct.error", pos)
    ELSE IF b1[1] \notin PropertyTypes THEN ParseFail("ValueError", pos + 1)
    ELSE IF b1[1] # PT_STRING THEN ParseFail("AssertionError", pos + 1)
    ELSE IF Len(nameBytes) < 4 THEN ParseFail("struct.error", pos + 1 + Len(nameBytes))
    ELSE IF Huge(nameBytes) \/ ~TableHasIndex(stringTable, UnpackUnsigned(nameBytes))
         THEN ParseFail("AssertionError", pos + 5)
    ELSE IF Len(b2) < 1 THEN ParseFail("struct.error", pos + 5)
    ELSE IF b2[1] \notin PropertyTypes THEN ParseFail("ValueError", pos + 6)
    ELSE LET propertyId == stringTable._index_to_string[UnpackUnsigned(nameBytes)]
             how == getPropertyTypeStructPack(b2[1])
             raw == Read(data, pos + 6, how.numBytes)
             end == pos + 6 + Len(raw)
         IN IF Len(raw) < how.numBytes THEN ParseFail("struct.error", end)
            ELSE IF how.typ = "SettingString"
            THEN IF Huge(raw) \/ ~TableHasIndex(stringTable, UnpackUnsigned(raw))
                 THEN ParseFail("AssertionError", end)
                 ELSE [err |-> "",
                       prop |-> Property(propertyId, b2[1],
                                  StringValue(stringTable._index_to_string[UnpackUnsigned(raw)])),
                       pos |-> end]
            ELSE [err |-> "",
                  prop |-> Property(propertyId, b2[1], StructUnpackValue(how.pack, raw)),
                  pos |-> end]

(***************************************************************************)
(* SettingStringTable(file) (parser.py 79-101).                            *)
(***************************************************************************)
\* The while loop of lines 91-95: size counts each string's canonical size.
RECURSIVE TableReadLoop(_, _, _, _, _)
TableReadLoop(data, pos, size, tableLen, strings) ==
    IF size >= tableLen THEN [err |-> "", strings |-> strings, pos |-> pos]
    ELSE Once({
         IF string.err # ""
         THEN [err |-> string.err, strings |-> strings, pos |-> string.pos]
         ELSE TableReadLoop(data, string.pos, size + StringSize(string.string),
                            tableLen, Append(strings, string.string))
         : string \in {SettingStringFromFile(data, pos)}})

\* SettingStringTable(file) raising e at read position pos.
TableFileFail(e, pos) ==
    [err |-> e, table |-> EmptyTable, pos |-> pos, expecting |-> <<>>, got |-> 0]

\* Mutant of SettingStringTable(file): the test of lines 87-89 is missing.
SettingStringTableFromFile_noLengthCheck(data, pos) ==
    LET head == Read(data, pos, 4)
        afterTableLen == pos + Len(head)
    IN IF Len(head) < 4
       THEN TableFileFail("struct.error", afterTableLen)
       ELSE LET read == TableReadLoop(data, afterTableLen, 0,
                            IF Huge(head) THEN Len(data) ELSE UnpackUnsigned(head), <<>>) IN
            IF read.err # ""
            THEN TableFileFail(read.err, read.pos)
            ELSE [err |-> "", table |-> SettingStringTable(read.strings), pos |-> read.pos,
                  expecting |-> <<>>, got |-> 0]

\* SettingStringTable(file): the table, and the read position after it.  The
\* ValueError of lines 88-89 carries tableLen (here as its four bytes) and
\* sizeTillEOF in its message.
SettingStringTableFromFile(data, pos) ==
    LET head == Read(data, pos, 4)
        afterTableLen == pos + Len(head)
        sizeTillEOF == Len(data) - afterTableLen
    IN IF Len(head) < 4
       THEN TableFileFail("struct.error", afterTableLen)
       ELSE IF Huge(head) \/ UnpackUnsigned(head) > sizeTillEOF
       THEN [err |-> "ValueError", table |-> EmptyTable, pos |-> afterTableLen,
             expecting |-> head, got |-> sizeTillEOF]
       ELSE Once({
            IF read.err # ""
            THEN TableFileFail(read.err, read.pos)
            ELSE [err |-> "", table |-> SettingStringTable(read.strings), pos |-> read.pos,
                  expecting |-> <<>>, got |-> 0]
            : read \in {TableReadLoop(data, afterTableLen, 0, UnpackUnsigned(head), <<>>)}})

(***************************************************************************)
(* GarminProperties (parser.py 279-503).  A collection is the pair of its  *)
(* _properties and its _string_table.                                      *)
(***************************************************************************)
MIN_FILE_SIZE == 16
MAGIC_VALUES_BYTE_SIZE == 4
FIXED_VALUE_AFTER_MID_OF_FILE == 11
START_OF_FILE_MAGIC_VALUE == <<171, 205, 171, 205>>
MID_OF_FILE_MAGIC_VALUE == <<218, 122, 218, 122>>

Collection(props, t) == [_properties |-> props, _string_table |-> t]

EmptyCollection == Collection(<<>>, EmptyTable)

\* A key of get / edit / remove: a SettingString, or a plain str to convert.
NameKey(s) == [plain |-> FALSE, text |-> s]
PlainKey(text) == [plain |-> TRUE, text |-> text]

\* Lines 416-417, 446-447, 473-474: a plain str key becomes a SettingString.
KeyString(key) ==
    IF key.plain THEN SettingString(key.text) ELSE [err |-> "", string |-> key.text]

\* The position of the first property called s, 0 when there is none.
FirstNamed(props, s) ==
    IF \E i \in 1..Len(props) : props[i].name = s
    THEN CHOOSE i \in 1..Len(props) :
             props[i].name = s /\ \A j \in 1..(i - 1) : props[j].name # s
    ELSE 0

\* GarminProperties.get
get(c, key) ==
    LET ks == KeyString(key) IN
    IF ks.err # "" THEN [err |-> ks.err, prop |-> NoProperty]
    ELSE IF FirstNamed(c._properties, ks.string) = 0
    THEN [err |-> "KeyError", prop |-> NoProperty]
    ELSE [err |-> "", prop |-> c._properties[FirstNamed(c._properties, ks.string)]]

\* GarminProperties.has_key / __contains__: only KeyError is caught.
has_key(c, key) ==
    LET r == get(c, key) IN
    IF r.err = "" THEN [err |-> "", has |-> TRUE]
    ELSE IF r.err = "KeyError" THEN [err |-> "", has |-> FALSE]
    ELSE [err |-> r.err, has |-> FALSE]

\* The set built by lines 435-439.
allActiveStrings(props) ==
    {props[i].name : i \in 1..Len(props)}
      \cup {props[i].value.v : i \in {j \in 1..Len(props) : props[j].type = PT_STRING}}

\* The loop of lines 441-443 over the keys the dict had when the loop began
\* (remove rebinds the table's dicts, so the view iterated stays whole).
RECURSIVE RefreshLoop(_, _, _)
RefreshLoop(t, keys, active) ==
    IF keys = <<>> THEN [err |-> "", table |-> t]
    ELSE IF Head(keys) \in active THEN RefreshLoop(t, Tail(keys), active)
    ELSE LET r == SettingStringTable_remove(t, StrKey(Head(keys))) IN
         IF r.err # "" THEN r
         ELSE RefreshLoop(r.table, Tail(keys), active)

\* Mutant of _refreshStringTable: nothing is pruned.
refreshStringTable_noPrune(c) == [err |-> "", c |-> c]

\* GarminProperties._refreshStringTable; a dict iterates in insertion order,
\* which is the order of _strings.
refreshStringTable(c) ==
    LET r == RefreshLoop(c._string_table, c._string_table._strings,
                         allActiveStrings(c._properties))
    IN [err |-> r.err, c |-> Collection(c._properties, r.table)]

\* Mutant of add: the duplicate test of lines 464-465 is missing.
GarminProperties_add_noCheck(c, property) ==
    LET named == SettingStringTable_add(c._string_table, property.name) IN
    [err |-> "",
     c |-> Collection(Append(c._properties, property),
             IF property.type = PT_STRING
             THEN SettingStringTable_add(named, property.value.v)
             ELSE named)]

\* GarminProperties.add
GarminProperties_add(c, property) ==
    LET has == has_key(c, NameKey(property.name)) IN
    IF has.err # "" THEN [err |-> has.err, c |-> c]
    ELSE IF has.has THEN [err |-> "KeyError", c |-> c]
    ELSE LET named == SettingStringTable_add(c._string_table, property.name) IN
         [err |-> "",
          c |-> Collection(Append(c._properties, property),
                  IF property.type = PT_STRING
                  THEN SettingStringTable_add(named, property.value.v)
                  ELSE named)]

\* Mutant of edit: line 455 tests isinstance(value, typ), and a bool is an int.
GarminProperties_edit_isinstance(c, propertyID, propertyValue) ==
    LET ks == KeyString(propertyID)
        i == FirstNamed(c._properties, ks.string)
    IN
    IF ks.err # "" THEN [err |-> ks.err, c |-> c]
    ELSE IF i = 0 THEN [err |-> "KeyError", c |-> c]
    ELSE IF /\ propertyValue.k # getPropertyTypeStructPack(c._properties[i].type).typ
            /\ ~(/\ propertyValue.k = "bool"
                 /\ getPropertyTypeStructPack(c._properties[i].type).typ = "int")
    THEN [err |-> "ValueError", c |-> c]
    ELSE LET props == [c._properties EXCEPT ![i].value = propertyValue] IN
         IF c._properties[i].type = PT_STRING
         THEN refreshStringTable(
                  Collection(props, SettingStringTable_add(c._string_table, propertyValue.v)))
         ELSE [err |-> "", c |-> Collection(props, c._string_table)]

\* Mutant of edit: line 457's assignment sits inside the STRING branch.
GarminProperties_edit_stringOnly(c, propertyID, propertyValue) ==
    LET ks == KeyString(propertyID)
        i == FirstNamed(c._properties, ks.string)
    IN
    IF ks.err # "" THEN [err |-> ks.err, c |-> c]
    ELSE IF i = 0 THEN [err |-> "KeyError", c |-> c]
    ELSE IF propertyValue.k # getPropertyTypeStructPack(c._properties[i].type).typ
    THEN [err |-> "ValueError", c |-> c]
    ELSE IF c._properties[i].type = PT_STRING
         THEN refreshStringTable(
                  Collection([c._properties EXCEPT ![i].value = propertyValue],
                             SettingStringTable_add(c._string_table, propertyValue.v)))
         ELSE [err |-> "", c |-> c]

\* GarminProperties.edit
GarminProperties_edit(c, propertyID, propertyValue) ==
    LET ks == KeyString(propertyID)
        i == FirstNamed(c._properties, ks.string)
    IN
    IF ks.err # "" THEN [err |-> ks.err, c |-> c]
    ELSE IF i = 0 THEN [err |-> "KeyError", c |-> c]
    ELSE IF propertyValue.k # getPropertyTypeStructPack(c._properties[i].type).typ
    THEN [err |-> "ValueError", c |-> c]
    ELSE LET props == [c._properties EXCEPT ![i].value = propertyValue] IN
         IF c._properties[i].type = PT_STRING
         THEN refreshStringTable(
                  Collection(props, SettingStringTable_add(c._string_table, propertyValue.v)))
         ELSE [err |-> "", c |-> Collection(props, c._string_table)]

\* Mutant of remove: the last property is deleted, not the one found.
GarminProperties_remove_last(c, propertyID) ==
    LET ks == KeyString(propertyID)
        i == FirstNamed(c._properties, ks.string)
    IN
    IF ks.err # "" THEN [err |-> ks.err, c |-> c]
    ELSE IF i = 0 THEN [err |-> "KeyError", c |-> c]
    ELSE refreshStringTable(
             Collection(SubSeq(c._properties, 1, Len(c._properties) - 1), c._string_table))

\* GarminProperties.remove
GarminProperties_remove(c, propertyID) ==
    LET ks == KeyString(propertyID)
        i == FirstNamed(c._properties, ks.string)
    IN
    IF ks.err # "" THEN [err |-> ks.err, c |-> c]
    ELSE IF i = 0 THEN [err |-> "KeyError", c |-> c]
    ELSE refreshStringTable(
             Collection(ListRemove(c._properties, c._properties[i]), c._string_table))

\* GarminProperties(list): lines 367-370; construction fails with the first error.
RECURSIVE InitFromList(_, _)
InitFromList(c, input) ==
    IF input = <<>> THEN [err |-> "", c |-> c]
    ELSE LET r == GarminProperties_add(c, Head(input)) IN
         IF r.err # "" THEN [err |-> r.err, c |-> EmptyCollection]
         ELSE InitFromList(r.c, Tail(input))

GarminProperties(input) == InitFromList(EmptyCollection, input)

RECURSIVE PropertiesBytesLoop(_, _)
PropertiesBytesLoop(props, t) ==
    IF props = <<>> THEN [err |-> "", bytes |-> <<>>]
    ELSE LET one == Property_bytes(Head(props), t) IN
         IF one.err # "" THEN one
         ELSE LET rest == PropertiesBytesLoop(Tail(props), t) IN
              IF rest.err # "" THEN rest
              ELSE [err |-> "", bytes |-> one.bytes \o rest.bytes]

\* Mutant of _bytesOnlyProperties: the fixed byte of line 486 is not written.
bytesOnlyProperties_noFixedByte(c) ==
    LET body == PropertiesBytesLoop(c._properties, c._string_table) IN
    IF body.err # "" THEN body
    ELSE [err |-> "",
          bytes |-> PackUnsigned(Len(c._properties), 4) \o body.bytes]

\* GarminProperties._bytesOnlyProperties
bytesOnlyProperties(c) ==
    LET body == PropertiesBytesLoop(c._properties, c._string_table) IN
    IF body.err # "" THEN body
    ELSE [err |-> "",
          bytes |-> PackUnsigned(FIXED_VALUE_AFTER_MID_OF_FILE, 1)
                      \o PackUnsigned(Len(c._properties), 4) \o body.bytes]

\* Mutant of GarminProperties.bytes: the length field before the records
\* holds the number of records, not the number of bytes.
GarminProperties_bytes_countAsLength(c) ==
    LET tbl == SettingStringTable_bytes(c._string_table)
        body == bytesOnlyProperties(c)
    IN IF tbl.err # "" THEN tbl
       ELSE IF body.err # "" THEN body
       ELSE [err |-> "",
             bytes |-> START_OF_FILE_MAGIC_VALUE \o tbl.bytes \o MID_OF_FILE_MAGIC_VALUE
                         \o PackUnsigned(Len(c._properties), 4) \o body.bytes]

\* GarminProperties.bytes
GarminProperties_bytes(c) ==
    LET tbl == SettingStringTable_bytes(c._string_table)
        body == bytesOnlyProperties(c)
    IN IF tbl.err # "" THEN tbl
       ELSE IF body.err # "" THEN body
       ELSE [err |-> "",
             bytes |-> START_OF_FILE_MAGIC_VALUE \o tbl.bytes \o MID_OF_FILE_MAGIC_VALUE
                         \o PackUnsigned(Len(body.bytes), 4) \o body.bytes]

\* The loop of lines 341-343.
RECURSIVE ParsePropertiesLoop(_, _, _, _, _)
ParsePropertiesLoop(data, pos, n, t, props) ==
    IF n = 0 THEN [err |-> "", props |-> props, pos |-> pos]
    ELSE Once({
         IF one.err # "" THEN [err |-> one.err, props |-> props, pos |-> one.pos]
         ELSE ParsePropertiesLoop(data, one.pos, n - 1, t, Append(props, one.prop))
         : one \in {parsePropertyFromBinary(data, pos, t)}})

\* _parsePropertiesFromBinaryFile raising e with the file read up to pos.
ImportFail(e, pos) == [err |-> e, c |-> EmptyCollection, pos |-> pos]

\* Mutant of _parsePropertiesFromBinaryFile: the start magic is not compared
\* (the assertion of lines 324-325 is missing).
parsePropertiesFromBinaryFile_anyMagic(data) ==
    LET fsize == Len(data) IN
    IF fsize < MIN_FILE_SIZE THEN ImportFail("AssertionError", fsize)
    ELSE Once({
         LET mid == Read(data, tbl.pos, MAGIC_VALUES_BYTE_SIZE)
             lenBytes == Read(data, tbl.pos + Len(mid), 4)
             afterLen == tbl.pos + Len(mid) + Len(lenBytes)
             fixed == Read(data, afterLen, 1)
             countBytes == Read(data, afterLen + 1, 4)
         IN
         IF tbl.err # "" THEN ImportFail(tbl.err, tbl.pos)
         ELSE IF Len(mid) < MAGIC_VALUES_BYTE_SIZE
         THEN ImportFail("struct.error", tbl.pos + Len(mid))
         ELSE IF mid # MID_OF_FILE_MAGIC_VALUE
         THEN ImportFail("AssertionError", tbl.pos + Len(mid))
         ELSE IF Len(lenBytes) < 4 THEN ImportFail("struct.error", afterLen)
         ELSE IF Huge(lenBytes) \/ fsize # afterLen + UnpackUnsigned(lenBytes)
         THEN ImportFail("AssertionError", afterLen)
         ELSE IF Len(fixed) < 1 THEN ImportFail("struct.error", afterLen)
         ELSE IF fixed[1] # FIXED_VALUE_AFTER_MID_OF_FILE
         THEN ImportFail("AssertionError", afterLen + 1)
         ELSE IF Len(countBytes) < 4
         THEN ImportFail("struct.error", afterLen + 1 + Len(countBytes))
         ELSE LET numberOfProperties ==
                      IF Huge(countBytes) THEN fsize ELSE UnpackUnsigned(countBytes)
              IN Once({
                 IF read.err # "" THEN ImportFail(read.err, read.pos)
                 ELSE IF fsize # read.pos THEN ImportFail("AssertionError", read.pos)
                 ELSE Once({[err |-> g.err, c |-> g.c, pos |-> read.pos]
                            : g \in {GarminProperties(read.props)}})
                 : read \in {ParsePropertiesLoop(data, afterLen + 5,
                                 numberOfProperties, tbl.table, <<>>)}})
         : tbl \in {SettingStringTableFromFile(data, MAGIC_VALUES_BYTE_SIZE)}})

\* Mutant of _parsePropertiesFromBinaryFile: the declared length of the
\* property section is not compared with the file's (the assertion of line
\* 334 is missing).
parsePropertiesFromBinaryFile_anyLength(data) ==
    LET fsize == Len(data) IN
    IF fsize < MIN_FILE_SIZE THEN ImportFail("AssertionError", fsize)
    ELSE IF Read(data, 0, MAGIC_VALUES_BYTE_SIZE) # START_OF_FILE_MAGIC_VALUE
    THEN ImportFail("AssertionError", MAGIC_VALUES_BYTE_SIZE)
    ELSE Once({
         LET mid == Read(data, tbl.pos, MAGIC_VALUES_BYTE_SIZE)
             lenBytes == Read(data, tbl.pos + Len(mid), 4)
             afterLen == tbl.pos + Len(mid) + Len(lenBytes)
             fixed == Read(data, afterLen, 1)
             countBytes == Read(data, afterLen + 1, 4)
         IN
         IF tbl.err # "" THEN ImportFail(tbl.err, tbl.pos)
         ELSE IF Len(mid) < MAGIC_VALUES_BYTE_SIZE
         THEN ImportFail("struct.error", tbl.pos + Len(mid))
         ELSE IF mid # MID_OF_FILE_MAGIC_VALUE
         THEN ImportFail("AssertionError", tbl.pos + Len(mid))
         ELSE IF Len(lenBytes) < 4 THEN ImportFail("struct.error", afterLen)
         ELSE IF Len(fixed) < 1 THEN ImportFail("struct.error", afterLen)
         ELSE IF fixed[1] # FIXED_VALUE_AFTER_MID_OF_FILE
         THEN ImportFail("AssertionError", afterLen + 1)
         ELSE IF Len(countBytes) < 4
         THEN ImportFail("struct.error", afterLen + 1 + Len(countBytes))
         ELSE LET
                  numberOfProperties ==
                      IF Huge(countBytes) THEN fsize ELSE UnpackUnsigned(countBytes)
              IN Once({
                 IF read.err # "" THEN ImportFail(read.err, read.pos)
                 ELSE IF fsize # read.pos THEN ImportFail("AssertionError", read.pos)
                 ELSE Once({[err |-> g.err, c |-> g.c, pos |-> read.pos]
                            : g \in {GarminProperties(read.props)}})
                 : read \in {ParsePropertiesLoop(data, afterLen + 5,
                                 numberOfProperties, tbl.table, <<>>)}})
         : tbl \in {SettingStringTableFromFile(data, MAGIC_VALUES_BYTE_SIZE)}})

\* Mutant of _parsePropertiesFromBinaryFile: the table read from the file is
\* kept (line 347 builds the property list only).
parsePropertiesFromBinaryFile_keepTable(data) ==
    LET fsize == Len(data) IN
    IF fsize < MIN_FILE_SIZE THEN ImportFail("AssertionError", fsize)
    ELSE IF Read(data, 0, MAGIC_VALUES_BYTE_SIZE) # START_OF_FILE_MAGIC_VALUE
    THEN ImportFail("AssertionError", MAGIC_VALUES_BYTE_SIZE)
    ELSE Once({
         LET mid == Read(data, tbl.pos, MAGIC_VALUES_BYTE_SIZE)
             lenBytes == Read(data, tbl.pos + Len(mid), 4)
             afterLen == tbl.pos + Len(mid) + Len(lenBytes)
             fixed == Read(data, afterLen, 1)
             countBytes == Read(data, afterLen + 1, 4)
         IN
         IF tbl.err # "" THEN ImportFail(tbl.err, tbl.pos)
         ELSE IF Len(mid) < MAGIC_VALUES_BYTE_SIZE
         THEN ImportFail("struct.error", tbl.pos + Len(mid))
         ELSE IF mid # MID_OF_FILE_MAGIC_VALUE
         THEN ImportFail("AssertionError", tbl.pos + Len(mid))
         ELSE IF Len(lenBytes) < 4 THEN ImportFail("struct.error", afterLen)
         ELSE IF Huge(lenBytes) \/ fsize # afterLen + UnpackUnsigned(lenBytes)
         THEN ImportFail("AssertionError", afterLen)
         ELSE IF Len(fixed) < 1 THEN ImportFail("struct.error", afterLen)
         ELSE IF fixed[1] # FIXED_VALUE_AFTER_MID_OF_FILE
         THEN ImportFail("AssertionError", afterLen + 1)
         ELSE IF Len(countBytes) < 4
         THEN ImportFail("struct.error", afterLen + 1 + Len(countBytes))
         ELSE LET
                  numberOfProperties ==
                      IF Huge(countBytes) THEN fsize ELSE UnpackUnsigned(countBytes)
              IN Once({
                 IF read.err # "" THEN ImportFail(read.err, read.pos)
                 ELSE IF fsize # read.pos THEN ImportFail("AssertionError", read.pos)
                 ELSE Once({[err |-> g.err, c |-> Collection(g.c._properties, tbl.table), pos |-> read.pos]
                            : g \in {GarminProperties(read.props)}})
                 : read \in {ParsePropertiesLoop(data, afterLen + 5,
                                 numberOfProperties, tbl.table, <<>>)}})
         : tbl \in {SettingStringTableFromFile(data, MAGIC_VALUES_BYTE_SIZE)}})

\* GarminProperties._parsePropertiesFromBinaryFile; pos is f.tell() when it
\* returns or raises.
parsePropertiesFromBinaryFile(data) ==
    LET fsize == Len(data) IN
    IF fsize < MIN_FILE_SIZE THEN ImportFail("AssertionError", fsize)
    ELSE IF Read(data, 0, MAGIC_VALUES_BYTE_SIZE) # START_OF_FILE_MAGIC_VALUE
    THEN ImportFail("AssertionError", MAGIC_VALUES_BYTE_SIZE)
    ELSE Once({
         LET mid == Read(data, tbl.pos, MAGIC_VALUES_BYTE_SIZE)
             lenBytes == Read(data, tbl.pos + Len(mid), 4)
             afterLen == tbl.pos + Len(mid) + Len(lenBytes)
             fixed == Read(data, afterLen, 1)
             countBytes == Read(data, afterLen + 1, 4)
         IN
         IF tbl.err # "" THEN ImportFail(tbl.err, tbl.pos)
         ELSE IF Len(mid) < MAGIC_VALUES_BYTE_SIZE
         THEN ImportFail("struct.error", tbl.pos + Len(mid))
         ELSE IF mid # MID_OF_FILE_MAGIC_VALUE
         THEN ImportFail("AssertionError", tbl.pos + Len(mid))
         ELSE IF Len(lenBytes) < 4 THEN ImportFail("struct.error", afterLen)
         ELSE IF Huge(lenBytes) \/ fsize # afterLen + UnpackUnsigned(lenBytes)
         THEN ImportFail("AssertionError", afterLen)
         ELSE IF Len(fixed) < 1 THEN ImportFail("struct.error", afterLen)
         ELSE IF fixed[1] # FIXED_VALUE_AFTER_MID_OF_FILE
         THEN ImportFail("AssertionError", afterLen + 1)
         ELSE IF Len(countBytes) < 4
         THEN ImportFail("struct.error", afterLen + 1 + Len(countBytes))
         ELSE LET \* a count beyond the buffer's length fails within fsize records
                  numberOfProperties ==
                      IF Huge(countBytes) THEN fsize ELSE UnpackUnsigned(countBytes)
              IN Once({
                 IF read.err # "" THEN ImportFail(read.err, read.pos)
                 ELSE IF fsize # read.pos THEN ImportFail("AssertionError", read.pos)
                 ELSE Once({[err |-> g.err, c |-> g.c, pos |-> read.pos]
                            : g \in {GarminProperties(read.props)}})
                 : read \in {ParsePropertiesLoop(data, afterLen + 5,
                                 numberOfProperties, tbl.table, <<>>)}})
         : tbl \in {SettingStringTableFromFile(data, MAGIC_VALUES_BYTE_SIZE)}})

(***************************************************************************)
(* JSON import (parser.py 213-226, 295-317).  A document is what           *)
(* json.loads returns: a str, int, float or bool as above, None with k     *)
(* "NoneType", a list with k "list" and the sequence of its items, a dict  *)
(* with k "dict" and its entries as a function from keys to values.        *)
(***************************************************************************)
NoneValue == [k |-> "NoneType", v |-> <<>>]
ListValue(l) == [k |-> "list", items |-> l]
DictValue(d) == [k |-> "dict", entries |-> d]

\* The texts of the six aliases, in the order of lines 214-224.
TypeAliases ==
    <<<<110, 117, 109, 98, 101, 114>>,    \* "number"
      <<102, 108, 111, 97, 116>>,         \* "float"
      <<115, 116, 114, 105, 110, 103>>,   \* "string"
      <<98, 111, 111, 108, 101, 97, 110>>, \* "boolean"
      <<108, 111, 110, 103>>,             \* "long"
      <<100, 111, 117, 98, 108, 101>>>>   \* "double"

\* getPropertyTypeFromString: s == "..." holds of a str of that text only.
getPropertyTypeFromString(s) ==
    LET is(i) == s.k = "str" /\ s.v = TypeAliases[i] IN
    IF is(1) THEN [err |-> "", type |-> INT32]
    ELSE IF is(2) THEN [err |-> "", type |-> FLOAT32]
    ELSE IF is(3) THEN [err |-> "", type |-> PT_STRING]
    ELSE IF is(4) THEN [err |-> "", type |-> PT_BOOLEAN]
    ELSE IF is(5) THEN [err |-> "", type |-> LONG64]
    ELSE IF is(6) THEN [err |-> "", type |-> DOUBLE64]
    ELSE [err |-> "ValueError", type |-> INT32]

\* The int of a number below 2^31.
IntOfNat(neg, n) == IntValue(neg /\ n # 0, StripZeros(PackUnsigned(n, 4)))

RECURSIVE DigitsValue(_)
DigitsValue(text) ==
    IF text = <<>> THEN 0
    ELSE 10 * DigitsValue(SubSeq(text, 1, Len(text) - 1)) + (text[Len(text)] - 48)

\* A decimal literal: an optional sign, then digits; ok tells whether text is
\* one, neg its sign and n its magnitude.  (int() and float() also take
\* blanks around the literal, underscores between digits and, for float(), a
\* fraction and an exponent; texts of up to 9 digits without those are
\* modelled.)
ParseLiteral(text) ==
    LET signed == text # <<>> /\ text[1] \in {43, 45}
        digits == IF signed THEN Tail(text) ELSE text
        ok == digits # <<>> /\ \A i \in 1..Len(digits) : digits[i] \in 48..57
    IN [ok |-> ok,
        neg |-> signed /\ text[1] = 45,
        n |-> IF ok THEN DigitsValue(digits) ELSE 0]

RECURSIVE Log2(_)
Log2(n) == IF n < 2 THEN 0 ELSE 1 + Log2(n \div 2)

\* float(n) for an integer of magnitude n below 2^21, where it is exact: the
\* binary64 image with exponent 1023 + Log2(n) and the bits below the leading
\* one at the top of the fraction.
FloatOfNat(neg, n) ==
    LET sign == IF neg THEN 128 ELSE 0 IN
    IF n = 0 THEN FloatValue(<<sign, 0, 0, 0, 0, 0, 0, 0>>)
    ELSE LET e == Log2(n)
             exp == 1023 + e
             top20 == (n - Pow(2, e)) * Pow(2, 20 - e)
         IN FloatValue(<<sign + exp \div 16, (exp % 16) * 16 + top20 \div 65536,
                         (top20 \div 256) % 256, top20 % 256, 0, 0, 0, 0>>)

\* int(value): an int as it is, a bool as 0 or 1, a float truncated towards
\* zero (floats below 2^24 in magnitude are modelled; an infinity raises
\* OverflowError, a NaN ValueError), a str parsed as a literal, None refused.
IntFromValue(val) ==
    CASE val.k = "int" -> [err |-> "", value |-> val]
      [] val.k = "bool" -> [err |-> "", value |-> IntOfNat(FALSE, val.v[1])]
      [] val.k = "float" /\ FloatExp(val.v) = 2047 ->
             [err |-> IF FloatMantHigh(val.v) = 0 /\ FloatRestHead(val.v) = 0
                           /\ FloatRestTailZero(val.v)
                      THEN "OverflowError" ELSE "ValueError",
              value |-> NoneValue]
      [] val.k = "float" /\ FloatExp(val.v) < 1023 ->
             [err |-> "", value |-> IntOfNat(FALSE, 0)]
      [] val.k = "float" /\ FloatExp(val.v) \in 1023..1046 ->
             LET e == FloatExp(val.v) - 1023 IN
             [err |-> "",
              value |-> IntOfNat(FloatSign(val.v) = 1,
                            Pow(2, e) + FloatMantHigh(val.v) \div Pow(2, 23 - e))]
      [] val.k = "str" /\ ParseLiteral(val.v).ok ->
             [err |-> "",
              value |-> IntOfNat(ParseLiteral(val.v).neg, ParseLiteral(val.v).n)]
      [] val.k = "str" /\ ~ParseLiteral(val.v).ok ->
             [err |-> "ValueError", value |-> NoneValue]
      [] val.k \in {"NoneType", "list", "dict"} -> [err |-> "TypeError", value |-> NoneValue]

\* float(value): ints of magnitude below 2^21 and literals of such ints are
\* modelled.
FloatFromValue(val) ==
    CASE val.k = "float" -> [err |-> "", value |-> val]
      [] val.k = "bool" -> [err |-> "", value |-> FloatOfNat(FALSE, val.v[1])]
      [] val.k = "int" /\ Len(val.v) <= 3 ->
             [err |-> "", value |-> FloatOfNat(val.v[1] = 1, UnpackUnsigned(Tail(val.v)))]
      [] val.k = "str" /\ ParseLiteral(val.v).ok ->
             [err |-> "",
              value |-> FloatOfNat(ParseLiteral(val.v).neg, ParseLiteral(val.v).n)]
      [] val.k = "str" /\ ~ParseLiteral(val.v).ok ->
             [err |-> "ValueError", value |-> NoneValue]
      [] val.k \in {"NoneType", "list", "dict"} -> [err |-> "TypeError", value |-> NoneValue]

\* bool(value): the truth value; None is false, a list or dict is true when it
\* has elements.
BoolFromValue(val) ==
    [err |-> "",
     value |-> BoolValue(CASE val.k = "NoneType" -> FALSE
                           [] val.k = "list" -> val.items # <<>>
                           [] val.k = "dict" -> DOMAIN val.entries # {}
                           [] OTHER -> Truthy(val))]

\* SettingString(value) for a value that is no file: str.__new__ takes any
\* value, __init__ asserts a str and refuses text that is not ASCII.
SettingStringFromValue(val) ==
    IF val.k \notin {"str", "SettingString"} THEN [err |-> "AssertionError", value |-> NoneValue]
    ELSE LET r == SettingString(val.v) IN
         IF r.err # "" THEN [err |-> r.err, value |-> NoneValue]
         ELSE [err |-> "", value |-> StringValue(r.string)]

\* internalPythonType(prop["defaultValue"]) under the try of lines 308-311: a
\* ValueError, UnicodeEncodeError included, is raised again as ValueError.
CoerceDefault(typ, val) ==
    LET r == CASE typ = "int" -> IntFromValue(val)
               [] typ = "float" -> FloatFromValue(val)
               [] typ = "bool" -> BoolFromValue(val)
               [] typ = "SettingString" -> SettingStringFromValue(val)
    IN IF r.err = "UnicodeEncodeError" THEN [r EXCEPT !.err = "ValueError"] ELSE r

\* Mutant of the loop body of _parsePropertiesFromJsonFile: every element is
\* given the type INT32.
JsonElement_allNumbers(c, prop) ==
    IF prop.k # "dict" THEN [err |-> "AssertionError", c |-> c]
    ELSE IF {"key", "valueType", "defaultValue"} \ DOMAIN prop.entries # {}
    THEN [err |-> "AssertionError", c |-> c]
    ELSE Once({
         IF propertyType.err # "" THEN [err |-> propertyType.err, c |-> c]
         ELSE Once({
              IF value.err # "" THEN [err |-> value.err, c |-> c]
              ELSE Once({
                   IF name.err # "" THEN [err |-> name.err, c |-> c]
                   ELSE GarminProperties_add(c,
                            Property(name.value.v, INT32, value.value))
                   : name \in {SettingStringFromValue(prop.entries["key"])}})
              : value \in {CoerceDefault(
                               getPropertyTypeStructPack(propertyType.type).typ,
                               prop.entries["defaultValue"])}})
         : propertyType \in {getPropertyTypeFromString(prop.entries["valueType"])}})

\* The body of the loop of lines 300-317 for one element of the array.
JsonElement(c, prop) ==
    IF prop.k # "dict" THEN [err |-> "AssertionError", c |-> c]
    ELSE IF {"key", "valueType", "defaultValue"} \ DOMAIN prop.entries # {}
    THEN [err |-> "AssertionError", c |-> c]
    ELSE Once({
         IF propertyType.err # "" THEN [err |-> propertyType.err, c |-> c]
         ELSE Once({
              IF value.err # "" THEN [err |-> value.err, c |-> c]
              ELSE Once({
                   IF name.err # "" THEN [err |-> name.err, c |-> c]
                   ELSE GarminProperties_add(c,
                            Property(name.value.v, propertyType.type, value.value))
                   : name \in {SettingStringFromValue(prop.entries["key"])}})
              : value \in {CoerceDefault(
                               getPropertyTypeStructPack(propertyType.type).typ,
                               prop.entries["defaultValue"])}})
         : propertyType \in {getPropertyTypeFromString(prop.entries["valueType"])}})

RECURSIVE JsonLoop(_, _)
JsonLoop(c, settings) ==
    IF settings = <<>> THEN [err |-> "", c |-> c]
    ELSE Once({
         IF r.err # "" THEN [err |-> r.err, c |-> EmptyCollection]
         ELSE JsonLoop(r.c, Tail(settings))
         : r \in {JsonElement(c, Head(settings))}})

\* GarminProperties._parsePropertiesFromJsonFile on the document settingJson
\* that json.loads returned, called on the empty collection of __init__.
parsePropertiesFromJsonFile(settingJson) ==
    IF settingJson.k # "dict" THEN [err |-> "AssertionError", c |-> EmptyCollection]
    ELSE IF "settings" \notin DOMAIN settingJson.entries
    THEN [err |-> "AssertionError", c |-> EmptyCollection]
    ELSE IF settingJson.entries["settings"].k # "list"
    THEN [err |-> "AssertionError", c |-> EmptyCollection]
    ELSE JsonLoop(EmptyCollection, settingJson.entries["settings"].items)

(***************************************************************************)
(* The stand-alone string table as a state machine: built from a list,     *)
(* then add and remove in any order.                                       *)
(***************************************************************************)
\* The strings the table operations draw from: "a", "bb", "c" and "".
TableStrings == {<<97>>, <<98, 98>>, <<99>>, <<>>}

RECURSIVE SeqsUpTo(_, _)
SeqsUpTo(S, n) ==
    IF n = 0 THEN {<<>>}
    ELSE LET shorter == SeqsUpTo(S, n - 1) IN
         shorter \cup {Append(l, x) : l \in shorter, x \in S}

NoCall == [op |-> "init", key |-> StrKey(<<>>), err |-> ""]

\* parsed when the last call returned no bytes.
NoResult == [err |-> "", bytes |-> <<>>]

IdleCollection ==
    /\ properties = <<>>
    /\ string_table = EmptyTable
    /\ buf = <<>>
    /\ parsed = NoResult

\* table = SettingStringTable(list), the list possibly naming a string twice.
InitTable ==
    /\ \E input \in SeqsUpTo(TableStrings, MaxStrings) :
           table = SettingStringTable(input)
    /\ last = NoCall
    /\ IdleCollection

\* table.add(s)
TableAdd(s) ==
    /\ s \in DOMAIN table._string_to_index \/ Len(table._strings) < MaxStrings
    /\ table' = SettingStringTable_add(table, s)
    /\ last' = [op |-> "add", key |-> StrKey(s), err |-> ""]
    /\ UNCHANGED <<properties, string_table, buf, parsed>>

\* table.remove(key), key a string or a number
TableRemove(key) ==
    LET r == SettingStringTable_remove(table, key) IN
    /\ table' = r.table
    /\ last' = [op |-> "remove", key |-> key, err |-> r.err]
    /\ UNCHANGED <<properties, string_table, buf, parsed>>

TableKeys ==
    {StrKey(s) : s \in TableStrings} \cup {IntKey(i) : i \in 0..(table._next_index + 1)}

NextTable ==
    \/ \E s \in TableStrings : TableAdd(s)
    \/ \E key \in TableKeys : TableRemove(key)

SpecTable == InitTable /\ [][NextTable]_vars

(***************************************************************************)
(* The property collection as a state machine: built from a list of        *)
(* properties, then add, edit, remove and export in any order.             *)
(***************************************************************************)
\* Property names: "A", "BB", "c".
Names == {<<65>>, <<66, 66>>, <<99>>}

\* String values: "c" (also a name) and "dd".
StringPool == {<<99>>, <<100, 100>>}

\* -1, 2^31 (beyond a signed 32-bit field) and 2^63 (beyond a signed 64-bit one).
IntPool ==
    {IntValue(TRUE, <<1>>), IntValue(FALSE, <<128, 0, 0, 0>>),
     IntValue(FALSE, <<128, 0, 0, 0, 0, 0, 0, 0>>)}

\* 1.23 and 1e40 as binary64 images.
FloatPool ==
    {FloatValue(<<63, 243, 174, 20, 122, 225, 71, 174>>),
     FloatValue(<<72, 61, 99, 197, 94, 156, 166, 166>>)}

\* The values edit is called with; a plain str is no SettingString.
EditValues ==
    IntPool \cup FloatPool \cup {BoolValue(TRUE), BoolValue(FALSE)}
      \cup {StringValue(s) : s \in StringPool} \cup {StrValue(<<99>>)}

\* The well-typed properties add and the constructor are called with: "A" is
\* numeric, "BB" a string or a boolean, "c" a string or a number.
PropertyPool ==
    {Property(<<65>>, INT32, IntValue(TRUE, <<1>>)),
     Property(<<65>>, LONG64, IntValue(FALSE, <<128, 0, 0, 0>>)),
     Property(<<65>>, FLOAT32, FloatValue(<<63, 243, 174, 20, 122, 225, 71, 174>>)),
     Property(<<65>>, DOUBLE64, FloatValue(<<63, 243, 174, 20, 122, 225, 71, 174>>)),
     Property(<<66, 66>>, PT_BOOLEAN, BoolValue(TRUE)),
     Property(<<99>>, INT32, IntValue(TRUE, <<1>>))}
      \cup {Property(n, PT_STRING, StringValue(s)) : n \in {<<66, 66>>, <<99>>}, s \in StringPool}

\* The keys get, edit and remove are called with: the names, a name no property
\* has ("zz"), and the plain str "A\x00", which converts to "A".
Keys == {NameKey(n) : n \in Names} \cup {NameKey(<<122, 122>>), PlainKey(<<65, 0>>)}

collection == Collection(properties, string_table)

IdleTable == table = EmptyTable /\ buf = <<>>

\* The record of a collection call: its name and the exception it raised.
Called(op, err) == [op |-> op, key |-> StrKey(<<>>), err |-> err]

\* GarminProperties(list)
Init ==
    /\ \E input \in SeqsUpTo(PropertyPool, MaxProps) :
           LET r == GarminProperties(input) IN
           /\ r.err = ""
           /\ properties = r.c._properties
           /\ string_table = r.c._string_table
    /\ last = NoCall
    /\ parsed = NoResult
    /\ IdleTable

\* collection.add(property)
Add(property) ==
    \E r \in {GarminProperties_add(collection, property)} :
        /\ Len(properties) < MaxProps \/ r.err # ""
        /\ properties' = r.c._properties
        /\ string_table' = r.c._string_table
        /\ last' = Called("add", r.err)
        /\ parsed' = NoResult
        /\ UNCHANGED <<table, buf>>

\* collection.edit(key, value)
Edit(key, value) ==
    \E r \in {GarminProperties_edit(collection, key, value)} :
        /\ properties' = r.c._properties
        /\ string_table' = r.c._string_table
        /\ last' = Called("edit", r.err)
        /\ parsed' = NoResult
        /\ UNCHANGED <<table, buf>>

\* collection.remove(key)
Remove(key) ==
    \E r \in {GarminProperties_remove(collection, key)} :
        /\ properties' = r.c._properties
        /\ string_table' = r.c._string_table
        /\ last' = Called("remove", r.err)
        /\ parsed' = NoResult
        /\ UNCHANGED <<table, buf>>

\* Mutant of collection.bytes: the table is rebuilt from the properties before
\* the collection is written.
Export_rebuilding ==
    \E c \in {GarminProperties(properties).c} :
    \E r \in {GarminProperties_bytes(c)} :
        /\ parsed' = r
        /\ last' = Called("bytes", r.err)
        /\ string_table' = c._string_table
        /\ UNCHANGED <<table, buf, properties>>

\* collection.bytes
Export ==
    \E r \in {GarminProperties_bytes(collection)} :
        /\ parsed' = r
        /\ last' = Called("bytes", r.err)
        /\ UNCHANGED <<table, buf, properties, string_table>>

Next ==
    \/ \E property \in PropertyPool : Add(property)
    \/ \E key \in Keys, value \in EditValues : Edit(key, value)
    \/ \E key \in Keys : Remove(key)
    \/ Export

Spec == Init /\ [][Next]_vars

(***************************************************************************)
(* Binary import as a state machine: a buffer is handed to the importer,   *)
(* and the collection it yields is exported again.                         *)
(***************************************************************************)
\* Encoded strings as a file may hold them: "A" and "c" as SettingString.bytes
\* writes them, "A" with two terminators, and "A" with none.
FileStringEntries == {<<0, 2, 65, 0>>, <<0, 2, 99, 0>>, <<0, 3, 65, 0, 0>>, <<0, 1, 65>>}

\* Type tag and value bytes of a record: INT32 -1, BOOLEAN 1 and 2, STRING at
\* offsets 0 and 4, FLOAT32 1.23.
FileValues ==
    {<<INT32, 255, 255, 255, 255>>, <<PT_BOOLEAN, 1>>, <<PT_BOOLEAN, 2>>,
     <<PT_STRING, 0, 0, 0, 0>>, <<PT_STRING, 0, 0, 0, 4>>,
     <<FLOAT32, 63, 157, 112, 164>>}

\* A record: the name marker, a name offset (0 or 4), then tag and value.
FileRecords == {<<PT_STRING, 0, 0, 0, o>> \o tv : o \in {0, 4}, tv \in FileValues}

RECURSIVE Flatten(_)
Flatten(ll) == IF ll = <<>> THEN <<>> ELSE Head(ll) \o Flatten(Tail(ll))

\* The size the importer's loop counts for an encoded string: 2 + len + 1 of
\* the stripped text, whatever the entry's own length.
CountedSize(entry) == Len(RStripNul(SubSeq(entry, 3, Len(entry)))) + 3

RECURSIVE CountedSizes(_)
CountedSizes(entries) ==
    IF entries = <<>> THEN 0 ELSE CountedSize(Head(entries)) + CountedSizes(Tail(entries))

\* The file with the given table entries, declared table length and records.
FileImage(entries, tableLen, records) ==
    START_OF_FILE_MAGIC_VALUE \o PackUnsigned(tableLen, 4) \o Flatten(entries)
      \o MID_OF_FILE_MAGIC_VALUE \o PackUnsigned(5 + Len(Flatten(records)), 4)
      \o <<FIXED_VALUE_AFTER_MID_OF_FILE>> \o PackUnsigned(Len(records), 4)
      \o Flatten(records)

\* buf is an input file: its declared table length is the payload's length
\* or the length the importer's loop counts.
InitBin ==
    /\ \E entries \in SeqsUpTo(FileStringEntries, MaxFileStrings) :
         \E tableLen \in {Len(Flatten(entries)), CountedSizes(entries)} :
           \E records \in SeqsUpTo(FileRecords, MaxFileRecords) :
               buf = FileImage(entries, tableLen, records)
    /\ properties = <<>>
    /\ string_table = EmptyTable
    /\ parsed = NoResult
    /\ last = NoCall
    /\ table = EmptyTable

\* GarminProperties(file) for a file that starts with the start magic.
Import ==
    /\ last.op = "init"
    /\ \E r \in {parsePropertiesFromBinaryFile(buf)} :
           /\ properties' = r.c._properties
           /\ string_table' = r.c._string_table
           /\ last' = Called("fromBinary", r.err)
    /\ UNCHANGED <<table, buf, parsed>>

\* collection.bytes of the imported collection
ExportImported ==
    /\ last.op = "fromBinary" /\ last.err = ""
    /\ \E r \in {GarminProperties_bytes(collection)} :
           /\ parsed' = r
           /\ last' = Called("bytes", r.err)
    /\ UNCHANGED <<table, buf, properties, string_table>>

NextBin == Import \/ ExportImported

SpecBin == InitBin /\ [][NextBin]_vars

(***************************************************************************)
(* The string table read from a file of its own, as a state machine.       *)
(***************************************************************************)
\* The table length fields a file may declare over a payload: its length,
\* the length the read loop counts, one more and one less than the payload,
\* and 2^31.
TableLenFields(entries) ==
    {PackUnsigned(n, 4) :
        n \in {Len(Flatten(entries)), CountedSizes(entries),
               Len(Flatten(entries)) + 1} \cup
              (IF entries = <<>> THEN {} ELSE {Len(Flatten(entries)) - 1})}
      \cup {<<SIGN_BIT, 0, 0, 0>>}

\* buf is a table file: a length field, then encoded strings.
InitTableBin ==
    /\ \E entries \in SeqsUpTo(FileStringEntries, MaxFileStrings) :
         \E field \in TableLenFields(entries) :
             buf = field \o Flatten(entries)
    /\ properties = <<>>
    /\ string_table = EmptyTable
    /\ parsed = NoResult
    /\ last = NoCall
    /\ table = EmptyTable

\* table = SettingStringTable(file)
TableImport ==
    /\ last.op = "init"
    /\ \E r \in {SettingStringTableFromFile(buf, 0)} :
           /\ table' = r.table
           /\ last' = [op |-> "tableFromBinary", key |-> IntKey(r.pos), err |-> r.err]
    /\ UNCHANGED <<buf, properties, string_table, parsed>>

\* table.bytes of the table read
TableExport ==
    /\ last.op = "tableFromBinary" /\ last.err = ""
    /\ \E r \in {SettingStringTable_bytes(table)} :
           /\ parsed' = r
           /\ last' = [op |-> "tableBytes", key |-> last.key, err |-> r.err]
    /\ UNCHANGED <<buf, table, properties, string_table>>

NextTableBin == TableImport \/ TableExport

SpecTableBin == InitTableBin /\ [][NextTableBin]_vars

(***************************************************************************)
(* One property record against a table, as a state machine: a table built  *)
(* from a list, then records encoded against it and decoded against it.    *)
(***************************************************************************)
\* The properties encoded: named "a" or "bb"; -1 and 0x23456789 as INT32,
\* 2^31 as INT32 and as LONG64, both booleans, the strings "c" and "", 1.23.
EncodePool ==
    {Property(n, tv[1], tv[2]) :
        n \in {<<97>>, <<98, 98>>},
        tv \in {<<INT32, IntValue(TRUE, <<1>>)>>,
                <<INT32, IntValue(FALSE, <<35, 69, 103, 137>>)>>,
                <<INT32, IntValue(FALSE, <<128, 0, 0, 0>>)>>,
                <<LONG64, IntValue(FALSE, <<128, 0, 0, 0>>)>>,
                <<PT_BOOLEAN, BoolValue(TRUE)>>,
                <<PT_BOOLEAN, BoolValue(FALSE)>>,
                <<PT_STRING, StringValue(<<99>>)>>,
                <<PT_STRING, StringValue(<<>>)>>,
                <<FLOAT32, FloatValue(<<63, 243, 174, 20, 122, 225, 71, 174>>)>>,
                <<DOUBLE64, FloatValue(<<63, 243, 174, 20, 122, 225, 71, 174>>)>>}}

\* Four-byte offset fields of a record: 0, 3, 4 (offsets of entries in some
\* tables), 1 (of none) and 2^31.
OffsetFields == {<<0, 0, 0, 0>>, <<0, 0, 0, 3>>, <<0, 0, 0, 4>>, <<0, 0, 0, 1>>,
                 <<SIGN_BIT, 0, 0, 0>>}

\* Tag and value bytes of a record: every known tag with a value of its
\* width, and the unknown tags 0 and 4.
TaggedValues ==
    {<<INT32, 255, 255, 255, 255>>, <<FLOAT32, 63, 157, 112, 164>>,
     <<PT_BOOLEAN, 1>>, <<PT_BOOLEAN, 0>>,
     <<LONG64, 0, 0, 0, 0, 128, 0, 0, 0>>,
     <<DOUBLE64, 63, 243, 174, 20, 122, 225, 71, 174>>,
     <<0, 0, 0, 0, 0>>, <<4, 0, 0, 0, 0>>}
      \cup {<<PT_STRING>> \o o : o \in OffsetFields}

\* The records decoded: the marker 3, another known tag (1) or an unknown
\* byte (4) in the marker's place, a name offset, then tag and value.
DecodePool ==
    {<<PT_STRING>> \o o \o tv : o \in OffsetFields, tv \in TaggedValues}
      \cup {<<b>> \o <<0, 0, 0, 0>> \o tv : b \in {INT32, 4}, tv \in TaggedValues}

InitRecord ==
    /\ \E input \in SeqsUpTo(TableStrings, MaxStrings) :
           table = SettingStringTable(input)
    /\ last = NoCall
    /\ IdleCollection

\* property.bytes(table); properties holds the property encoded.
Encode(property) ==
    /\ \E r \in {Property_bytes(property, table)} :
           /\ parsed' = r
           /\ last' = [op |-> "encode", key |-> StrKey(<<>>), err |-> r.err]
    /\ properties' = <<property>>
    /\ buf' = <<>>
    /\ UNCHANGED <<table, string_table>>

\* parsePropertyFromBinary(file of record, table); properties holds the
\* property returned, if one is.
Decode(record) ==
    /\ \E r \in {parsePropertyFromBinary(record, 0, table)} :
           /\ properties' = IF r.err = "" THEN <<r.prop>> ELSE <<>>
           /\ last' = [op |-> "decode", key |-> IntKey(r.pos), err |-> r.err]
    /\ buf' = record
    /\ parsed' = NoResult
    /\ UNCHANGED <<table, string_table>>

NextRecord ==
    \/ \E property \in EncodePool : Encode(property)
    \/ \E record \in DecodePool : Decode(record)

SpecRecord == InitRecord /\ [][NextRecord]_vars

(***************************************************************************)
(* Import of a valid file whose first four bytes have bits flipped.        *)
(***************************************************************************)
\* b with the bits of m flipped, both in 0..255.
XorByte(b, m) ==
    LET bit(x, k) == (x \div Pow(2, k)) % 2
        RECURSIVE sum(_)
        sum(k) == IF k < 0 THEN 0
                  ELSE ((bit(b, k) + bit(m, k)) % 2) * Pow(2, k) + sum(k - 1)
    IN sum(7)

\* The bits flipped in the four bytes: none, each single bit, all bits, the
\* bits that turn the start magic into the mid magic, and one bit at each end.
FlipMasks ==
    {[i \in 1..4 |-> IF i = j THEN Pow(2, k) ELSE 0] : j \in 1..4, k \in 0..7}
      \cup {<<0, 0, 0, 0>>, <<255, 255, 255, 255>>, <<113, 183, 113, 183>>,
            <<SIGN_BIT, 0, 0, 1>>}

Flip(data, mask) ==
    [i \in 1..Len(data) |-> IF i <= 4 THEN XorByte(data[i], mask[i]) ELSE data[i]]

\* buf is the export of a collection, with bits of its first four bytes
\* flipped; parsed keeps the export itself.
InitFlip ==
    /\ \E input \in SeqsUpTo(PropertyPool, MaxFlipProps) :
         \E mask \in FlipMasks :
             /\ GarminProperties(input).err = ""
             /\ parsed = GarminProperties_bytes(GarminProperties(input).c)
             /\ parsed.err = ""
             /\ buf = Flip(parsed.bytes, mask)
    /\ properties = <<>>
    /\ string_table = EmptyTable
    /\ last = NoCall
    /\ table = EmptyTable

\* _parsePropertiesFromBinaryFile(file of buf); last.key keeps f.tell().
ImportFlipped ==
    /\ last.op = "init"
    /\ \E r \in {parsePropertiesFromBinaryFile(buf)} :
           /\ properties' = r.c._properties
           /\ string_table' = r.c._string_table
           /\ last' = [op |-> "fromBinary", key |-> IntKey(r.pos), err |-> r.err]
    /\ UNCHANGED <<table, buf, parsed>>

SpecFlip == InitFlip /\ [][ImportFlipped]_vars

(***************************************************************************)
(* Import of a file with a defect in its frame: the magics, the length     *)
(* fields, the fixed byte, the count, the total length.                    *)
(***************************************************************************)
\* A defect: the mid magic written, what is added to the true property
\* section length and to the true count, the fixed byte written, bytes
\* appended behind the records, and whether the file is cut to 15 bytes.
Defect(mid, dR, fixed, dN, tail, cut) ==
    [mid |-> mid, dR |-> dR, fixed |-> fixed, dN |-> dN, tail |-> tail, cut |-> cut]

NoDefect ==
    Defect(MID_OF_FILE_MAGIC_VALUE, 0, FIXED_VALUE_AFTER_MID_OF_FILE, 0, <<>>, FALSE)

\* No defect; a wrong mid magic; a length one too large or too small; a wrong
\* fixed byte; a count one too large or too small; a byte behind the records,
\* counted in the length or not; a file cut below the minimum size.
Defects ==
    {NoDefect,
     [NoDefect EXCEPT !.mid = <<218, 122, 218, 123>>],
     [NoDefect EXCEPT !.dR = 1],
     [NoDefect EXCEPT !.dR = -1],
     [NoDefect EXCEPT !.fixed = 10],
     [NoDefect EXCEPT !.dN = 1],
     [NoDefect EXCEPT !.dN = -1],
     [NoDefect EXCEPT !.tail = <<0>>, !.dR = 1],
     [NoDefect EXCEPT !.tail = <<0>>],
     [NoDefect EXCEPT !.cut = TRUE]}

\* The file of the given table entries and records, written with defect d.
DefectiveImage(entries, records, d) ==
    LET whole ==
            START_OF_FILE_MAGIC_VALUE
              \o PackUnsigned(Len(Flatten(entries)), 4) \o Flatten(entries)
              \o d.mid \o PackUnsigned(5 + Len(Flatten(records)) + d.dR, 4)
              \o <<d.fixed>> \o PackUnsigned(Len(records) + d.dN, 4)
              \o Flatten(records) \o d.tail
    IN IF d.cut THEN SubSeq(whole, 1, MIN_FILE_SIZE - 1) ELSE whole

InitBad ==
    /\ \E entries \in SeqsUpTo(FileStringEntries, MaxBadStrings) :
         \E records \in SeqsUpTo(FileRecords, MaxBadRecords) :
           \E d \in Defects :
               /\ Len(records) + d.dN >= 0
               /\ buf = DefectiveImage(entries, records, d)
    /\ properties = <<>>
    /\ string_table = EmptyTable
    /\ parsed = NoResult
    /\ last = NoCall
    /\ table = EmptyTable

\* _parsePropertiesFromBinaryFile(file of buf); last.key keeps f.tell().
ImportBad ==
    /\ last.op = "init"
    /\ \E r \in {parsePropertiesFromBinaryFile(buf)} :
           /\ properties' = r.c._properties
           /\ string_table' = r.c._string_table
           /\ last' = [op |-> "fromBinary", key |-> IntKey(r.pos), err |-> r.err]
    /\ UNCHANGED <<table, buf, parsed>>

SpecBad == InitBad /\ [][ImportBad]_vars

(***************************************************************************)
(* JSON import as a state machine: buf holds the document json.loads       *)
(* returned, and the importer is run on it.                                *)
(***************************************************************************)
MaxJsonElements == 2 \* elements of the settings array

\* Elements of the array: under key "A" each alias with default values its
\* type takes and values it has to convert or refuse, an unknown alias and a
\* valueType that is no str; under key "BB" a number and a string; a key that
\* is not ASCII, a key that is no str, an element that is no object, and an
\* element without each of its fields.
JsonElements ==
    LET alias(i) == StrValue(TypeAliases[i])
        five == IntValue(FALSE, <<5>>)
        someFloat == FloatValue(<<63, 243, 174, 20, 122, 225, 71, 174>>) \* 1.23
        entry(key, valueType, defaultValue) ==
            DictValue([f \in {"key", "valueType", "defaultValue"} |->
                          CASE f = "key" -> key
                            [] f = "valueType" -> valueType
                            [] f = "defaultValue" -> defaultValue])
        without(e, field) ==
            DictValue([f \in DOMAIN e.entries \ {field} |-> e.entries[f]])
        typed ==
            {<<alias(1), d>> :
                d \in {five, BoolValue(TRUE), StrValue(<<49, 50>>), StrValue(<<120>>),
                       NoneValue, someFloat}}
              \cup {<<alias(2), d>> : d \in {IntValue(TRUE, <<5>>), StrValue(<<120>>), someFloat}}
              \cup {<<alias(3), d>> : d \in {StrValue(<<120>>), StrValue(<<233>>), five}}
              \cup {<<alias(4), d>> : d \in {BoolValue(FALSE), StrValue(<<120>>), NoneValue}}
              \cup {<<alias(5), IntValue(FALSE, <<128, 0, 0, 0>>)>>,
                    <<alias(6), someFloat>>,
                    <<StrValue(<<105, 110, 116>>), five>>,
                    <<IntValue(FALSE, <<1>>), five>>}
    IN {entry(StrValue(<<65>>), tv[1], tv[2]) : tv \in typed}
         \cup {entry(StrValue(<<66, 66>>), alias(1), five),
               entry(StrValue(<<66, 66>>), alias(3), StrValue(<<65>>)),
               entry(StrValue(<<233>>), alias(1), five),
               entry(five, alias(1), five),
               StrValue(<<65>>)}
         \cup {without(entry(StrValue(<<66, 66>>), alias(1), five), field) :
                  field \in {"key", "valueType", "defaultValue"}}

\* Documents: an object with a settings array, and the three shapes the
\* opening assertions refuse.
JsonDocuments ==
    {DictValue([f \in {"settings"} |-> ListValue(l)]) :
        l \in SeqsUpTo(JsonElements, MaxJsonElements)}
      \cup {ListValue(<<>>),
            DictValue([f \in {"other"} |-> ListValue(<<>>)]),
            DictValue([f \in {"settings"} |-> StrValue(<<65>>)])}

InitJson ==
    /\ buf \in JsonDocuments
    /\ properties = <<>>
    /\ string_table = EmptyTable
    /\ table = EmptyTable
    /\ parsed = NoResult
    /\ last = NoCall

\* GarminProperties(file) for a file that does not open with the start magic
\* (lines 359-364), the bytes of which json.loads turns into buf.
ImportJson ==
    /\ last.op = "init"
    /\ \E r \in {parsePropertiesFromJsonFile(buf)} :
           /\ properties' = r.c._properties
           /\ string_table' = r.c._string_table
           /\ last' = Called("fromJson", r.err)
    /\ UNCHANGED <<table, buf, parsed>>

SpecJson == InitJson /\ [][ImportJson]_vars

(***************************************************************************)
(* The collection under callers that hand it any Property record: the      *)
(* dataclass takes any value for any type.  The records whose type is not  *)
(* STRING are modelled (add reads the value of a STRING property only).    *)
(***************************************************************************)
AnyProperties ==
    {Property(<<65>>, INT32, IntValue(FALSE, <<5>>)),
     Property(<<65>>, INT32, StrValue(<<99>>)),
     Property(<<66, 66>>, PT_BOOLEAN, IntValue(FALSE, <<1>>)),
     Property(<<66, 66>>, PT_BOOLEAN, BoolValue(TRUE)),
     Property(<<99>>, FLOAT32, IntValue(FALSE, <<5>>)),
     Property(<<99>>, PT_STRING, StringValue(<<100, 100>>)),
     Property(<<99>>, LONG64, BoolValue(TRUE))}

\* GarminProperties(list)
InitAny ==
    /\ \E input \in SeqsUpTo(AnyProperties, MaxProps) :
           LET r == GarminProperties(input) IN
           /\ r.err = ""
           /\ properties = r.c._properties
           /\ string_table = r.c._string_table
    /\ last = NoCall
    /\ parsed = NoResult
    /\ IdleTable

NextAny ==
    \/ \E property \in AnyProperties : Add(property)
    \/ \E key \in Keys, value \in EditValues : Edit(key, value)
    \/ \E key \in Keys : Remove(key)

SpecAny == InitAny /\ [][NextAny]_vars

(***************************************************************************)
(* The string codec as a state machine: a text is made a SettingString and *)
(* encoded into buf, and buf is decoded.                                   *)
(***************************************************************************)
MaxBodyLen == 3 \* bytes after the length prefix of an input buffer

\* Texts: empty, ASCII, with a trailing and with an embedded NUL, with a
\* character beyond ASCII, and the longest text whose length the prefix
\* holds and the one a character longer.
Texts ==
    LET run(n) == SubSeq([i \in 1..n |-> 65], 1, n) \* "A" n times
    IN {<<>>, <<65>>, <<66, 66>>, <<65, 0>>, <<65, 0, 66>>, <<233>>, <<65, 233>>,
        run(Pow(BYTE, LEN_FIELD_SIZE) - 2), run(Pow(BYTE, LEN_FIELD_SIZE) - 1)}

\* Buffers: no byte, one byte, and every prefix 0 .. MaxBodyLen + 2 before
\* every body of up to MaxBodyLen bytes out of "A", NUL and a byte beyond
\* ASCII.
StringBuffers ==
    {<<>>, <<0>>}
      \cup {<<0, L>> \o body : L \in 0..(MaxBodyLen + 2),
                              body \in SeqsUpTo({65, NUL, 195}, MaxBodyLen)}

InitString ==
    /\ buf \in StringBuffers
    /\ last = NoCall
    /\ parsed = NoResult
    /\ table = EmptyTable
    /\ properties = <<>>
    /\ string_table = EmptyTable

\* SettingString(text).bytes
EncodeText(text) ==
    \E made \in {SettingString(text)} :
    \E r \in {IF made.err # "" THEN [err |-> made.err, bytes |-> <<>>]
              ELSE StringBytes(made.string)} :
        /\ buf' = r.bytes
        /\ parsed' = r
        /\ last' = [op |-> "encode", key |-> StrKey(text), err |-> r.err]
        /\ UNCHANGED <<table, properties, string_table>>

\* SettingString(io.BytesIO(buf)): parsed holds the attribute string, the
\* key of last the position of the file afterwards.
DecodeBuffer ==
    \E r \in {SettingStringFromFile(buf, 0)} :
        /\ parsed' = [err |-> r.err, bytes |-> r.string]
        /\ last' = [op |-> "decode", key |-> IntKey(r.pos), err |-> r.err]
        /\ UNCHANGED <<table, buf, properties, string_table>>

NextString ==
    \/ \E text \in Texts : EncodeText(text)
    \/ DecodeBuffer

SpecString == InitString /\ [][NextString]_vars

(***************************************************************************)
(* Properties of the string table (SpecTable).                             *)
(***************************************************************************)
SeqToSet(l) == {l[i] : i \in 1..Len(l)}

\* The sum of the byte-sizes 2 + len + 1 of the strings of l, stated directly.
RECURSIVE ByteSizeSum(_)
ByteSizeSum(l) == IF l = <<>> THEN 0 ELSE (Len(Head(l)) + 3) + ByteSizeSum(Tail(l))

\* C6: after any sequence of add and remove on a table built from a list, the
\* first string is at offset 0, offsets strictly increase in table order, each
\* next offset is the previous one plus the previous string's byte-size, and
\* the next free offset is the sum of the byte-sizes of all strings.
C6_OffsetsContiguous ==
    LET strs == table._strings
        off == table._string_to_index
    IN /\ DOMAIN off = SeqToSet(strs)
       /\ strs # <<>> => off[strs[1]] = 0
       /\ \A i \in 1..(Len(strs) - 1) :
              /\ off[strs[i]] < off[strs[i + 1]]
              /\ off[strs[i + 1]] = off[strs[i]] + (Len(strs[i]) + 3)
       /\ table._next_index = ByteSizeSum(strs)

\* A remove has left at least two strings of different sizes behind.
C6_Witness ==
    /\ last.op = "remove" /\ last.err = ""
    /\ Len(table._strings) >= 2
    /\ Len(table._strings[1]) # Len(table._strings[2])

\* C10: add(s) of a string the table contains changes nothing; add(s) of an
\* absent string appends s at the offset equal to the table's total byte-size
\* before the call and leaves every existing offset as it was.  Stated of every
\* add the table's current state admits.
C10_AddFrame ==
    \A s \in TableStrings :
        LET after == SettingStringTable_add(table, s) IN
        IF s \in SeqToSet(table._strings)
        THEN after = table
        ELSE /\ after._strings = Append(table._strings, s)
             /\ after._string_to_index[s] = ByteSizeSum(table._strings)
             /\ after._index_to_string[ByteSizeSum(table._strings)] = s
             /\ \A x \in SeqToSet(table._strings) :
                    after._string_to_index[x] = table._string_to_index[x]
             /\ \A o \in DOMAIN table._index_to_string :
                    after._index_to_string[o] = table._index_to_string[o]
             /\ after._next_index = ByteSizeSum(table._strings) + Len(s) + 3

\* An add has appended a string behind at least one other.
C10_Witness ==
    /\ last.op = "add"
    /\ Len(table._strings) >= 2
    /\ table._strings[Len(table._strings)] = last.key.s
    /\ table._string_to_index[last.key.s] > 0

(***************************************************************************)
(* Properties of the collection (Spec).                                    *)
(***************************************************************************)
\* The names of props, and the values of its STRING-typed members.
UsedStrings(props) ==
    {props[i].name : i \in 1..Len(props)}
      \cup {props[i].value.v : i \in {j \in 1..Len(props) : props[j].type = PT_STRING}}

\* C1: after construction from a list and after every add, edit or remove, the
\* set of strings of the collection's table is exactly the set of property
\* names together with the values of the STRING-typed properties.
C1_TableIsUsedStrings ==
    /\ SeqToSet(string_table._strings) = UsedStrings(properties)
    /\ DOMAIN string_table._string_to_index = UsedStrings(properties)

\* A remove or an edit has run on a collection that still shares a string
\* between a STRING value and a name.
C1_Witness ==
    /\ last.op \in {"edit", "remove"} /\ last.err = ""
    /\ \E i, j \in 1..Len(properties) :
           /\ properties[i].type = PT_STRING
           /\ properties[i].value.v = properties[j].name

NoDuplicateNames(props) ==
    \A i, j \in 1..Len(props) : props[i].name = props[j].name => i = j

\* C5: add of a property whose name is already in the collection fails with
\* KeyError whatever its type and value and leaves the property list, its
\* length and the table unchanged; no reachable collection holds a name twice.
C5_DuplicateAdd ==
    /\ NoDuplicateNames(properties)
    /\ \A property \in PropertyPool :
           property.name \in {properties[i].name : i \in 1..Len(properties)} =>
               LET r == GarminProperties_add(collection, property) IN
               /\ r.err = "KeyError"
               /\ r.c._properties = properties
               /\ Len(r.c._properties) = Len(properties)
               /\ r.c._string_table = string_table

\* An add has been refused on a collection of two properties or more.
C5_Witness == last.op = "add" /\ last.err = "KeyError" /\ Len(properties) >= 2

\* The representation a type tag fixes (spec, Typed Value).
DeclaredRepresentation(type) ==
    CASE type \in {INT32, LONG64} -> "int"
      [] type \in {FLOAT32, DOUBLE64} -> "float"
      [] type = PT_STRING -> "SettingString"
      [] type = PT_BOOLEAN -> "bool"

Named(props, s) == {i \in 1..Len(props) : props[i].name = s}

\* C7: edit(name, v) fails with KeyError when no property is called name and
\* with ValueError when v's representation is not the one of the property's
\* type (a bool is no int, an int no bool and no float); in both cases the
\* property list, every value and the table stay as they were.
C7_EditFailures ==
    \A key \in Keys, value \in EditValues :
        LET hit == Named(properties, KeyString(key).string)
            r == GarminProperties_edit(collection, key, value)
        IN /\ hit = {} =>
                /\ r.err = "KeyError"
                /\ r.c._properties = properties /\ r.c._string_table = string_table
           /\ (\E i \in hit : value.k # DeclaredRepresentation(properties[i].type)) =>
                /\ r.err = "ValueError"
                /\ r.c._properties = properties /\ r.c._string_table = string_table

\* An edit has been refused for its value's type.
C7_Witness == last.op = "edit" /\ last.err = "ValueError" /\ Len(properties) >= 2

\* C8: a successful edit(name, v) changes only the value of the property
\* called name: get(name) then returns v, and the number of properties, their
\* order, names, types and the other values are as before.
C8_EditFrame ==
    \A key \in Keys, value \in EditValues :
        LET r == GarminProperties_edit(collection, key, value) IN
        r.err = "" =>
            /\ Len(r.c._properties) = Len(properties)
            /\ \A i \in 1..Len(properties) :
                   /\ r.c._properties[i].name = properties[i].name
                   /\ r.c._properties[i].type = properties[i].type
                   /\ r.c._properties[i].value =
                        IF properties[i].name = KeyString(key).string
                        THEN value ELSE properties[i].value
            /\ get(r.c, key).err = ""
            /\ get(r.c, key).prop.value = value

\* An edit has succeeded on a collection of two properties or more.
C8_Witness == last.op = "edit" /\ last.err = "" /\ Len(properties) >= 2

\* l without its i-th element.
Without(l, i) == SubSeq(l, 1, i - 1) \o SubSeq(l, i + 1, Len(l))

\* C9: remove(name) fails with KeyError and changes nothing when no property
\* is called name; otherwise it deletes exactly that property, leaves the
\* others in their order with their types and values, and keeps in the table
\* every string a remaining property uses.
C9_RemoveFrame ==
    \A key \in Keys :
        LET hit == Named(properties, KeyString(key).string)
            r == GarminProperties_remove(collection, key)
        IN /\ hit = {} =>
                /\ r.err = "KeyError"
                /\ r.c._properties = properties /\ r.c._string_table = string_table
           /\ \A i \in hit :
                /\ r.err = ""
                /\ r.c._properties = Without(properties, i)
                /\ UsedStrings(r.c._properties) \subseteq SeqToSet(r.c._string_table._strings)

\* A remove has taken one property out of three.
C9_Witness == last.op = "remove" /\ last.err = "" /\ Len(properties) = 2

(***************************************************************************)
(* Round trips of a reachable collection through its binary form (Spec).   *)
(***************************************************************************)
\* C2: for every reachable collection x, parsing toBinary(x) and serialising
\* the result again yields exactly the bytes of toBinary(x).  Stated in its
\* weakest reading, of the collections toBinary accepts.
C2_RoundTripBytes ==
    LET first == GarminProperties_bytes(collection) IN
    first.err = "" =>
        LET again == parsePropertiesFromBinaryFile(first.bytes) IN
        /\ again.err = ""
        /\ GarminProperties_bytes(again.c) = first

\* C3: for every reachable collection x of INT32, LONG64, BOOLEAN and STRING
\* properties, fromBinary(toBinary(x)) succeeds and holds the properties of x:
\* the same names, types and values in the same order.
C3_RoundTripProperties ==
    (\A i \in 1..Len(properties) :
         properties[i].type \in {INT32, LONG64, PT_BOOLEAN, PT_STRING}) =>
        LET first == GarminProperties_bytes(collection)
            again == parsePropertiesFromBinaryFile(first.bytes)
        IN /\ first.err = ""
           /\ again.err = ""
           /\ again.c._properties = properties

(***************************************************************************)
(* Round trip of an accepted buffer (SpecBin).                             *)
(***************************************************************************)
\* The strings the properties refer to, each once, in the order of their
\* first reference: a property's name, then its value when that is a string.
RECURSIVE FirstReferences(_, _)
FirstReferences(props, seen) ==
    IF props = <<>> THEN seen
    ELSE LET p == Head(props)
             withName == IF InList(seen, p.name) THEN seen ELSE Append(seen, p.name)
             withValue == IF p.type = PT_STRING /\ ~InList(withName, p.value.v)
                          THEN Append(withName, p.value.v) ELSE withName
         IN FirstReferences(Tail(props), withValue)

\* The one encoding the exporter writes for a string: length + 1 in two
\* bytes, the text, one terminator.
CanonicalEntry(s) == <<(Len(s) + 1) \div BYTE, (Len(s) + 1) % BYTE>> \o s \o <<NUL>>

RECURSIVE CanonicalPayload(_)
CanonicalPayload(strings) ==
    IF strings = <<>> THEN <<>>
    ELSE CanonicalEntry(Head(strings)) \o CanonicalPayload(Tail(strings))

\* The position in buf of the value bytes of record i (1-based): past the
\* magics, both length fields, the table payload, the fixed byte, the count,
\* the records before i, and record i's name marker, name offset and tag.
ValueStart(i) ==
    LET tableLen == UnpackUnsigned(SubSeq(buf, 5, 8))
        width(k) == getPropertyTypeStructPack(properties[k].type).numBytes
        RECURSIVE before(_)
        before(k) == IF k = 0 THEN 0 ELSE before(k - 1) + 6 + width(k)
    IN 8 + tableLen + MAGIC_VALUES_BYTE_SIZE + 4 + 1 + 4 + before(i - 1) + 6 + 1

\* buf is laid out as the exporter lays a file out: its table is exactly the
\* strings its records refer to, each once, in first-reference order and in
\* the canonical encoding, under the true length; its BOOLEAN bytes are 0 or 1.
C4_CanonicalFile ==
    LET payload == CanonicalPayload(FirstReferences(properties, <<>>)) IN
    /\ SubSeq(buf, 5, 8) = PackUnsigned(Len(payload), 4)
    /\ SubSeq(buf, 9, 8 + Len(payload)) = payload
    /\ \A i \in 1..Len(properties) :
           properties[i].type = PT_BOOLEAN => buf[ValueStart(i)] \in {0, 1}

\* C4 as stated: for every buffer fromBinary accepts, toBinary of the parsed
\* collection is the buffer, byte for byte.
C4_AcceptedRoundTrip ==
    last.op = "bytes" => parsed.err = "" /\ parsed.bytes = buf

\* C4 amended: for every buffer fromBinary accepts that is laid out as the
\* exporter lays a file out, toBinary of the parsed collection is the buffer.
C4_CanonicalRoundTrip ==
    (last.op = "bytes" /\ C4_CanonicalFile) => parsed.err = "" /\ parsed.bytes = buf

\* A canonical buffer of two records, an INT32 of -1 and a string, has been
\* imported and exported.
C4_Witness ==
    /\ last.op = "bytes"
    /\ C4_CanonicalFile
    /\ Len(properties) = 2
    /\ \E i \in 1..2 : properties[i].type = INT32
    /\ \E i \in 1..2 : properties[i].type = PT_STRING

(***************************************************************************)
(* Removal from the string table (SpecTable).                              *)
(***************************************************************************)
\* The offsets of t are the running sums of the byte-sizes of its strings,
\* from 0, in both directions of the lookup.
RunningOffsets(t) ==
    /\ DOMAIN t._string_to_index = SeqToSet(t._strings)
    /\ \A i \in 1..Len(t._strings) :
           /\ t._string_to_index[t._strings[i]] = ByteSizeSum(SubSeq(t._strings, 1, i - 1))
           /\ ByteSizeSum(SubSeq(t._strings, 1, i - 1)) \in DOMAIN t._index_to_string
           /\ t._index_to_string[ByteSizeSum(SubSeq(t._strings, 1, i - 1))] = t._strings[i]
    /\ \A o \in DOMAIN t._index_to_string :
           \E i \in 1..Len(t._strings) : o = ByteSizeSum(SubSeq(t._strings, 1, i - 1))

\* C11: remove of a contained string, or of the offset of a contained string,
\* deletes exactly that string, keeps the others in their order and gives them
\* the running sums of byte-sizes from 0 as offsets; remove of an absent
\* string (ValueError) or of a number that is no entry's offset (KeyError)
\* fails and leaves the table as it was.  Stated of every remove the table's
\* current state admits.
C11_TableRemove ==
    \A key \in TableKeys :
        LET r == SettingStringTable_remove(table, key)
            strs == table._strings
            hit == IF key.isInt
                   THEN {i \in 1..Len(strs) : ByteSizeSum(SubSeq(strs, 1, i - 1)) = key.i}
                   ELSE {i \in 1..Len(strs) : strs[i] = key.s}
        IN /\ \A i \in hit :
                /\ r.err = ""
                /\ r.table._strings = Without(strs, i)
                /\ RunningOffsets(r.table)
                /\ r.table._next_index = ByteSizeSum(Without(strs, i))
           /\ hit = {} =>
                /\ r.err = (IF key.isInt THEN "KeyError" ELSE "ValueError")
                /\ r.table = table

\* A remove by offset has taken out a string that was not the first and has
\* left two strings behind.
C11_Witness ==
    /\ last.op = "remove" /\ last.err = ""
    /\ last.key.isInt /\ last.key.i > 0
    /\ Len(table._strings) = 2

(***************************************************************************)
(* The string table read from a file (SpecTableBin).                       *)
(***************************************************************************)
\* The table length field of buf, and the bytes that follow it.
DeclaredField == SubSeq(buf, 1, 4)
RemainingBytes == Len(buf) - 4

\* The declared table length is greater than the bytes that remain.
DeclaredExceedsRemaining ==
    Huge(DeclaredField) \/ UnpackUnsigned(DeclaredField) > RemainingBytes

\* C12: reading a table whose declared length T is greater than the bytes
\* remaining after the length field fails with ValueError, and the error
\* carries both T and the number of bytes remaining.
C12_TruncatedTable ==
    (last.op = "tableFromBinary" /\ DeclaredExceedsRemaining) =>
        /\ last.err = "ValueError"
        /\ SettingStringTableFromFile(buf, 0).expecting = DeclaredField
        /\ SettingStringTableFromFile(buf, 0).got = RemainingBytes

\* A table file of one string or more, declared one byte longer than it is,
\* has been refused.
C12_Witness ==
    /\ last.op = "tableFromBinary" /\ last.err = "ValueError"
    /\ RemainingBytes >= 3
    /\ DeclaredField = PackUnsigned(RemainingBytes + 1, 4)

\* Where the encoded strings of data end when read one after the other from
\* position pos (0-based) up to limit, each taking its length field plus the
\* bytes that field announces; past the end of data when one is cut short.
RECURSIVE StringsEnd(_, _, _)
StringsEnd(data, pos, limit) ==
    IF pos >= limit THEN pos
    ELSE IF pos + LEN_FIELD_SIZE > Len(data) THEN Len(data) + 1
    ELSE StringsEnd(data,
                    pos + LEN_FIELD_SIZE + data[pos + 1] * BYTE + data[pos + 2],
                    limit)

\* C13: reading a table fails when a string that starts inside the T-byte
\* payload extends beyond byte T of the payload.
C13_OverrunFails ==
    (/\ last.op = "tableFromBinary"
     /\ ~DeclaredExceedsRemaining
     /\ StringsEnd(buf, 4, 4 + UnpackUnsigned(DeclaredField))
            > 4 + UnpackUnsigned(DeclaredField)) =>
        last.err # ""

(***************************************************************************)
(* One property record against a table (SpecRecord).                       *)
(***************************************************************************)
\* C14: encoding a property against a table fails with AssertionError when
\* its name is not in the table, or when it is STRING-typed and its value is
\* not in the table; encoding, failed or not, leaves the table's strings and
\* offsets as they were.
C14_EncodeNeedsTable ==
    /\ \A property \in EncodePool :
           (\/ property.name \notin SeqToSet(table._strings)
            \/ /\ property.type = PT_STRING
               /\ property.value.v \notin SeqToSet(table._strings)) =>
               Property_bytes(property, table).err = "AssertionError"
    /\ [][last'.op = "encode" => table' = table]_vars

\* An encoding has failed for a STRING value missing from a table that holds
\* the property's name.
C14_Witness ==
    /\ last.op = "encode" /\ last.err = "AssertionError"
    /\ properties[1].type = PT_STRING
    /\ properties[1].name \in SeqToSet(table._strings)
    /\ properties[1].value.v \notin SeqToSet(table._strings)

\* n in four bytes, most significant first.
BigEndian4(n) ==
    <<n \div 16777216, (n \div 65536) % 256, (n \div 256) % 256, n % 256>>

\* The offset of the string s of table t: the byte-sizes of the strings
\* before it, summed.
OffsetOf(t, s) ==
    LET i == CHOOSE k \in 1..Len(t._strings) : t._strings[k] = s
    IN ByteSizeSum(SubSeq(t._strings, 1, i - 1))

\* C15: a successfully encoded record is the byte 3, the 4-byte big-endian
\* table offset of the name, the type tag, then the value: the 4-byte offset
\* of the value string for STRING, 4 bytes for INT32, one byte 0 or 1 for
\* BOOLEAN, 8 bytes for LONG64; 10 bytes in all for INT32 and STRING, 7 for
\* BOOLEAN, 14 for LONG64.  The integer bytes are the value's two's
\* complement.
C15_RecordLayout ==
    (last.op = "encode" /\ last.err = "") =>
        LET p == properties[1]
            rec == parsed.bytes
            value == SubSeq(rec, 7, Len(rec))
        IN /\ rec[1] = 3
           /\ SubSeq(rec, 2, 5) = BigEndian4(OffsetOf(table, p.name))
           /\ rec[6] = p.type
           /\ p.type = PT_STRING =>
                  Len(rec) = 10 /\ value = BigEndian4(OffsetOf(table, p.value.v))
           /\ p.type = INT32 =>
                  Len(rec) = 10 /\ UnpackSigned(value) = AsPyInt(p.value)
           /\ p.type = PT_BOOLEAN =>
                  Len(rec) = 7 /\ value = <<IF p.value = BoolValue(TRUE) THEN 1 ELSE 0>>
           /\ p.type = LONG64 =>
                  Len(rec) = 14 /\ UnpackSigned(value) = AsPyInt(p.value)

\* A STRING property has been encoded whose name and value both stand behind
\* another string of the table.
C15_Witness ==
    /\ last.op = "encode" /\ last.err = ""
    /\ properties[1].type = PT_STRING
    /\ SubSeq(parsed.bytes, 2, 5) # <<0, 0, 0, 0>>
    /\ SubSeq(parsed.bytes, 7, 10) # <<0, 0, 0, 0>>

\* The offsets of the entries of t, as four-byte fields.
EntryOffsets(t) == {BigEndian4(OffsetOf(t, t._strings[i])) : i \in 1..Len(t._strings)}

\* The four cases of a record in buf that cannot be decoded against table.
BadMarker == buf[1] # 3
BadNameOffset == SubSeq(buf, 2, 5) \notin EntryOffsets(table)
BadTag == buf[6] \notin {1, 2, 3, 9, 14, 15}
BadValueOffset == buf[6] = 3 /\ SubSeq(buf, 7, 10) \notin EntryOffsets(table)

\* C16: decoding a record fails, and returns no property, when its first byte
\* is not 3, when its name offset is no entry's offset, when its type byte is
\* none of the six tags, and when its type is STRING and its value offset is
\* no entry's offset.  An unknown byte where a tag is read raises ValueError,
\* the other cases AssertionError.
C16_DecodeFailures ==
    last.op = "decode" =>
        /\ (BadMarker \/ BadNameOffset \/ BadTag \/ BadValueOffset) =>
               last.err # "" /\ properties = <<>>
        /\ BadMarker =>
               last.err = (IF buf[1] \in {1, 2, 9, 14, 15}
                           THEN "AssertionError" ELSE "ValueError")
        /\ (~BadMarker /\ BadNameOffset) => last.err = "AssertionError"
        /\ (~BadMarker /\ ~BadNameOffset /\ BadTag) => last.err = "ValueError"
        /\ (~BadMarker /\ ~BadNameOffset /\ BadValueOffset) => last.err = "AssertionError"

\* A record has been refused only for the offset of its string value: its
\* marker, its name offset and its tag are good.
C16_Witness ==
    /\ last.op = "decode" /\ last.err # ""
    /\ ~BadMarker /\ ~BadNameOffset /\ ~BadTag /\ BadValueOffset
    /\ Len(table._strings) >= 2

(***************************************************************************)
(* A flipped start magic (SpecFlip).                                       *)
(***************************************************************************)
\* C17: importing as binary a valid file with one or more bits of its first
\* four bytes flipped fails with AssertionError, and no property record is
\* decoded before the failure: the read stops behind the four bytes, and no
\* property comes out.
C17_FlippedMagic ==
    (last.op = "fromBinary" /\ SubSeq(buf, 1, 4) # SubSeq(parsed.bytes, 1, 4)) =>
        /\ last.err = "AssertionError"
        /\ last.key.i = 4
        /\ properties = <<>> /\ string_table = EmptyTable

\* A file of one STRING property, with the lowest bit of its fourth byte
\* flipped, has been refused.
C17_Witness ==
    /\ last.op = "fromBinary" /\ last.err # ""
    /\ SubSeq(buf, 1, 4) = <<171, 205, 171, 204>>
    /\ Len(buf) > 30

(***************************************************************************)
(* The frame of a file (SpecBad).                                          *)
(***************************************************************************)
\* Where the reading of buf's string table ends: the mid magic is read there.
TableEnd == SettingStringTableFromFile(buf, 4).pos

\* Where n records end that are read from position pos (0-based) of data,
\* each 6 bytes plus the width of its tag's value; -1 when a record is cut
\* short or its tag is unknown.
RECURSIVE RecordsEnd(_, _, _)
RecordsEnd(data, pos, n) ==
    IF n = 0 THEN pos
    ELSE IF pos + 6 > Len(data) THEN -1
    ELSE LET tag == data[pos + 6]
             width == CASE tag \in {1, 2, 3} -> 4
                        [] tag = 9 -> 1
                        [] tag \in {14, 15} -> 8
                        [] OTHER -> -1
         IN IF width < 0 THEN -1 ELSE RecordsEnd(data, pos + 6 + width, n - 1)

LongEnough == Len(buf) >= 16
FrameInside == TableEnd + 13 <= Len(buf)
MidOk == SubSeq(buf, TableEnd + 1, TableEnd + 4) = <<218, 122, 218, 122>>
LengthOk == Len(buf) = TableEnd + 8 + UnpackUnsigned(SubSeq(buf, TableEnd + 5, TableEnd + 8))
FixedOk == buf[TableEnd + 9] = 11
RecordsOk ==
    RecordsEnd(buf, TableEnd + 13,
               UnpackUnsigned(SubSeq(buf, TableEnd + 10, TableEnd + 13))) = Len(buf)

\* C18: the import accepts a buffer only if it is at least 16 bytes long, its
\* length is the offset behind the property-section length field plus the
\* length declared there, the byte behind that field is 0x0B, the mid magic
\* is 0xDA7ADA7A and the declared number of records ends exactly at the end
\* of the buffer.  A buffer that is too short, or whose table reads and whose
\* mid magic, length or fixed byte is wrong, raises AssertionError; one whose
\* records do not end at its end raises AssertionError, struct.error or
\* ValueError.
C18_FrameChecked ==
    last.op = "fromBinary" =>
        /\ last.err = "" =>
               LongEnough /\ FrameInside /\ MidOk /\ LengthOk /\ FixedOk /\ RecordsOk
        /\ ~LongEnough => last.err = "AssertionError"
        /\ (/\ LongEnough /\ FrameInside
            /\ SettingStringTableFromFile(buf, 4).err = ""
            /\ ~(MidOk /\ LengthOk /\ FixedOk)) => last.err = "AssertionError"
        /\ (/\ LongEnough /\ FrameInside
            /\ SettingStringTableFromFile(buf, 4).err = ""
            /\ MidOk /\ LengthOk /\ FixedOk /\ ~RecordsOk) =>
               last.err \in {"AssertionError", "struct.error", "ValueError"}

\* A file of one record has been refused for its declared length alone.
C18_Witness ==
    /\ last.op = "fromBinary" /\ last.err = "AssertionError"
    /\ LongEnough /\ FrameInside
    /\ MidOk /\ FixedOk /\ RecordsOk /\ ~LengthOk
    /\ SubSeq(buf, TableEnd + 10, TableEnd + 13) = <<0, 0, 0, 1>>

(***************************************************************************)
(* The table of an imported collection (SpecBin).                          *)
(***************************************************************************)
\* The strings of the table as buf's own table section gives them.
FileTableStrings == SettingStringTableFromFile(buf, 4).table._strings

\* C19: after a successful import the collection's table is the one rebuilt
\* from the decoded properties in their order (each name, then the value when
\* it is a string, the first occurrence winning), with offsets running from
\* 0, and not the table read from the buffer: a string of the file's table
\* that no property refers to is not in it.
C19_TableRebuilt ==
    (last.op = "fromBinary" /\ last.err = "") =>
        /\ string_table._strings = FirstReferences(properties, <<>>)
        /\ RunningOffsets(string_table)
        /\ string_table._next_index = ByteSizeSum(string_table._strings)
        /\ \A s \in SeqToSet(FileTableStrings) :
               s \notin UsedStrings(properties) => s \notin SeqToSet(string_table._strings)

\* A file has been imported whose table holds a string that none of its
\* records refers to.
C19_Witness ==
    /\ last.op = "fromBinary" /\ last.err = ""
    /\ properties # <<>>
    /\ \E s \in SeqToSet(FileTableStrings) : s \notin UsedStrings(properties)

(***************************************************************************)
(* The layout of an exported file (Spec).                                  *)
(***************************************************************************)
\* The number of bytes a property is written in: marker, name offset, tag
\* and a value of the width of its type.
EncodedSize(prop) ==
    6 + (IF prop.type = PT_BOOLEAN THEN 1
         ELSE IF prop.type \in {LONG64, DOUBLE64} THEN 8
         ELSE 4)

RECURSIVE EncodedSizeSum(_)
EncodedSizeSum(props) ==
    IF props = <<>> THEN 0 ELSE EncodedSize(Head(props)) + EncodedSizeSum(Tail(props))

\* The four bytes of out from offset at (counted from 0).
FieldAt(out, at) == SubSeq(out, at + 1, at + 4)

\* C20: whenever toBinary succeeds the output starts with ABCDABCD, its
\* table length field T is the sum of the byte-sizes of the table's strings,
\* DA7ADA7A stands at offset 8 + T, the section length field R is 1 + 4 + the
\* sum of the encoded sizes of the properties, the count field is the number
\* of properties, and the output is 8 + T + 4 + 4 + R bytes long.
C20_ExportLayout ==
    (last.op = "bytes" /\ last.err = "") =>
        LET out == parsed.bytes
            T == ByteSizeSum(string_table._strings)
            R == 1 + 4 + EncodedSizeSum(properties)
        IN /\ Len(out) = 8 + T + 4 + 4 + R
           /\ FieldAt(out, 0) = <<171, 205, 171, 205>>
           /\ FieldAt(out, 4) = BigEndian4(T)
           /\ FieldAt(out, 8 + T) = <<218, 122, 218, 122>>
           /\ FieldAt(out, 8 + T + 4) = BigEndian4(R)
           /\ FieldAt(out, 8 + T + 4 + 4 + 1) = BigEndian4(Len(properties))

\* A collection of properties of different widths, one of them a string, has
\* been exported.
C20_Witness ==
    /\ last.op = "bytes" /\ last.err = ""
    /\ Len(properties) >= 2
    /\ \E i, j \in 1..Len(properties) :
           /\ properties[i].type = PT_STRING
           /\ EncodedSize(properties[j]) # EncodedSize(properties[i])

HasSettings ==
    /\ buf.k = "dict"
    /\ "settings" \in DOMAIN buf.entries
    /\ buf.entries["settings"].k = "list"

Settings == buf.entries["settings"].items

\* The alias mapping, as the claim states it.
AliasTypes ==
    {<<<<110, 117, 109, 98, 101, 114>>, INT32>>,          \* number
     <<<<102, 108, 111, 97, 116>>, FLOAT32>>,             \* float
     <<<<115, 116, 114, 105, 110, 103>>, PT_STRING>>,     \* string
     <<<<98, 111, 111, 108, 101, 97, 110>>, PT_BOOLEAN>>, \* boolean
     <<<<108, 111, 110, 103>>, LONG64>>,                  \* long
     <<<<100, 111, 117, 98, 108, 101>>, DOUBLE64>>}       \* double

IsAlias(v) == v.k = "str" /\ \E at \in AliasTypes : at[1] = v.v

LacksField(e) ==
    e.k = "dict" /\ {"key", "valueType", "defaultValue"} \ DOMAIN e.entries # {}

UnknownAlias(e) ==
    e.k = "dict" /\ "valueType" \in DOMAIN e.entries /\ ~IsAlias(e.entries["valueType"])

SameKey(e1, e2) ==
    /\ e1.k = "dict" /\ e2.k = "dict"
    /\ "key" \in DOMAIN e1.entries /\ "key" \in DOMAIN e2.entries
    /\ e1.entries["key"] = e2.entries["key"]

\* C22: a successful fromJson has built one property per element of the
\* settings array, in document order, named by the element's key and typed by
\* the alias mapping of its valueType; and fromJson fails, building nothing,
\* when an element lacks key, valueType or defaultValue, when a valueType is
\* none of the six aliases, or when two elements have the same key.
C22_JsonImport ==
    (last.op = "fromJson" /\ HasSettings) =>
        /\ last.err = "" =>
               /\ Len(properties) = Len(Settings)
               /\ \A i \in 1..Len(Settings) :
                      /\ properties[i].name = Settings[i].entries["key"].v
                      /\ <<Settings[i].entries["valueType"].v, properties[i].type>>
                             \in AliasTypes
        /\ (\/ \E i \in 1..Len(Settings) :
                   LacksField(Settings[i]) \/ UnknownAlias(Settings[i])
            \/ \E i, j \in 1..Len(Settings) : i # j /\ SameKey(Settings[i], Settings[j]))
               => (last.err # "" /\ properties = <<>>)

\* Two elements of different aliases have been imported.
C22_Witness ==
    /\ last.op = "fromJson" /\ last.err = ""
    /\ HasSettings
    /\ Len(properties) = 2
    /\ properties[1].type # properties[2].type
    /\ properties[2].type # INT32

(***************************************************************************)
(* The representation of stored values (SpecAny).                          *)
(***************************************************************************)
\* C23: every stored property's value has the representation its type tag
\* fixes: int for INT32 and LONG64, float for FLOAT32 and DOUBLE64,
\* SettingString for STRING, bool for BOOLEAN.
C23_ValuesMatchTypes ==
    \A i \in 1..Len(properties) :
        properties[i].value.k = DeclaredRepresentation(properties[i].type)

(***************************************************************************)
(* The string codec (SpecString).                                          *)
(***************************************************************************)
NoNul(text) == \A i \in 1..Len(text) : text[i] # 0

\* The encoding the claim describes: len + 1 in two bytes, the text, a NUL.
PrefixedTerminated(text) ==
    <<(Len(text) + 1) \div 256, (Len(text) + 1) % 256>> \o text \o <<0>>

\* The text the last encode call was given.
Encoded == last.key.s

\* The ASCII texts without NUL, and those of at most 65534 characters, whose
\* len + 1 two bytes hold.
AsciiTexts == {text \in Texts : IsAscii(text) /\ NoNul(text)}
ShortAsciiTexts == {text \in AsciiTexts : Len(text) + 1 < 65536}

\* After an encode of a text within the set ofTexts: the encoding is the
\* prefixed and terminated text, and decoding it gives the text back; a
\* decode of the encoding of such a text has given that text.
RoundTripWithin(ofTexts) ==
    /\ (last.op = "encode" /\ Encoded \in ofTexts) =>
           /\ last.err = ""
           /\ buf = PrefixedTerminated(Encoded)
           /\ SettingStringFromFile(buf, 0).err = ""
           /\ SettingStringFromFile(buf, 0).string = Encoded
    /\ \A text \in ofTexts :
           (last.op = "decode" /\ Len(buf) = Len(text) + 3
              /\ buf = PrefixedTerminated(text)) =>
               parsed = [err |-> "", bytes |-> text]

\* C24 as stated: for every ASCII text without NUL the encoding is the 2-byte
\* big-endian len + 1, the text and one NUL, and decoding it gives the text.
C24_EveryAsciiText ==
    RoundTripWithin(AsciiTexts)

\* C24 amended: the same for every ASCII text without NUL of at most 65534
\* characters, whose len + 1 the two bytes hold; and making a SettingString
\* of a text with a character of code 128 or above fails.
C24_StringRoundTrip ==
    /\ RoundTripWithin(ShortAsciiTexts)
    /\ (last.op = "encode" /\ \E i \in 1..Len(Encoded) : Encoded[i] >= 128) =>
           (last.err = "UnicodeEncodeError" /\ buf = <<>>)

\* The encoding of "BB" has been decoded.
C24_Witness ==
    /\ last.op = "decode" /\ last.err = ""
    /\ buf = <<0, 3, 66, 66, 0>>
    /\ parsed.bytes = <<66, 66>>

\* C25: decoding fails when fewer than 2 bytes are left for the length
\* prefix, or fewer than L bytes after a length prefix of value L.
C25_TruncatedDecodeFails ==
    (last.op = "decode"
       /\ (\/ Len(buf) < 2
           \/ Len(buf) - 2 < buf[1] * 256 + buf[2])) =>
        last.err # ""

\* The list l with every later occurrence of a string removed.
RECURSIVE FirstOccurrences(_)
FirstOccurrences(l) ==
    IF l = <<>> THEN <<>>
    ELSE LET front == FirstOccurrences(SubSeq(l, 1, Len(l) - 1))
             s == l[Len(l)]
         IN IF s \in SeqToSet(front) THEN front ELSE Append(front, s)

HasDuplicate(l) == \E i, j \in 1..Len(l) : i < j /\ l[i] = l[j]

TableInputs == SeqsUpTo(TableStrings, MaxStrings)

\* C26: a table built from a list that names a string several times holds each
\* distinct string once, in the order of first occurrence, and its offsets and
\* its total size are those of the list with the later duplicates removed:
\* it is the table built from that shorter list.
C26_DuplicatesDropped ==
    last.op = "init" =>
        \A input \in TableInputs :
            table = SettingStringTable(input) =>
                /\ table._strings = FirstOccurrences(input)
                /\ \A i, j \in 1..Len(table._strings) :
                       table._strings[i] = table._strings[j] => i = j
                /\ RunningOffsets(table)
                /\ table._next_index = ByteSizeSum(FirstOccurrences(input))
                /\ table = SettingStringTable(FirstOccurrences(input))

\* C26 witness: a fresh table built from a list naming a string twice between
\* two others holds two strings.
C26_Witness ==
    /\ last.op = "init"
    /\ \E input \in TableInputs :
           /\ HasDuplicate(input)
           /\ Len(input) = 3
           /\ input[1] = input[3]
           /\ input[1] # input[2]
           /\ table = SettingStringTable(input)
           /\ Len(table._strings) = 2
           /\ table._string_to_index[input[2]] = Len(input[1]) + 3

indexOf(s) == SettingStringTable_getitem(table, StrKey(s))

stringAt(o) == SettingStringTable_getitem(table, IntKey(o))

\* The strings and the offsets the lookups are asked about: every string of
\* the pool and every number up to one past the table's size.
LookupStrings == TableStrings \cup {<<122, 122>>}

LookupOffsets == 0..(ByteSizeSum(table._strings) + 1)

\* C27: after any sequence of add and remove the two lookups are mutually
\* inverse. indexOf answers exactly for the strings of the table, stringAt
\* exactly for their offsets, stringAt(indexOf(s)) is s, and either lookup of
\* anything else raises KeyError.
C27_LookupsInverse ==
    /\ \A s \in LookupStrings :
           IF InList(table._strings, s)
           THEN /\ indexOf(s).err = ""
                /\ stringAt(indexOf(s).i).err = ""
                /\ stringAt(indexOf(s).i).s = s
           ELSE indexOf(s).err = "KeyError"
    /\ \A o \in LookupOffsets :
           IF \E i \in 1..Len(table._strings) : indexOf(table._strings[i]).i = o
           THEN /\ stringAt(o).err = ""
                /\ InList(table._strings, stringAt(o).s)
                /\ indexOf(stringAt(o).s).i = o
           ELSE stringAt(o).err = "KeyError"

\* C27 witness: a remove has just taken a string out of a table that still
\* holds two, the second of them found behind the first by both lookups, and
\* both lookups fail for the string that left and for the offset past the end.
C27_Witness ==
    /\ last.op = "remove"
    /\ last.err = ""
    /\ ~last.key.isInt
    /\ Len(table._strings) = 2
    /\ indexOf(table._strings[2]).i = Len(table._strings[1]) + 3
    /\ stringAt(Len(table._strings[1]) + 3).s = table._strings[2]
    /\ indexOf(last.key.s).err = "KeyError"
    /\ stringAt(table._next_index).err = "KeyError"

\* The integer values of the collection fit the widths their types declare.
IntegersFit ==
    \A i \in 1..Len(properties) :
        /\ properties[i].type = INT32 =>
               /\ properties[i].value.k = "int"
               /\ FitsSigned(AsPyInt(properties[i].value), 4)
        /\ properties[i].type = LONG64 =>
               /\ properties[i].value.k = "int"
               /\ FitsSigned(AsPyInt(properties[i].value), 8)

\* C28: in every collection reached from a list of properties whose integers
\* fit their widths by add, edit and remove, every INT32 value lies in the
\* signed 32-bit range and every LONG64 value in the signed 64-bit range, and
\* bytes succeeds on a collection of integer, boolean and string properties.
C28_ExportNeverFails ==
    /\ IntegersFit
    /\ (\A i \in 1..Len(properties) :
            properties[i].type \in {INT32, LONG64, PT_BOOLEAN, PT_STRING}) =>
           GarminProperties_bytes(collection).err = ""

\* The string entries a table file lays out between pos and end, each with the
\* byte offset of its length prefix within the payload, which starts at base:
\* an entry is its 2-byte prefix and the number of bytes the prefix states.
RECURSIVE FileEntriesFrom(_, _, _, _)
FileEntriesFrom(data, base, pos, end) ==
    IF pos >= end \/ pos + LEN_FIELD_SIZE > Len(data) THEN {}
    ELSE LET strLen == UnpackUnsigned(Read(data, pos, LEN_FIELD_SIZE))
             body == Read(data, pos + LEN_FIELD_SIZE, strLen)
         IN {[start |-> pos - base, text |-> RStripNul(body)]}
              \cup FileEntriesFrom(data, base, pos + LEN_FIELD_SIZE + strLen, end)

\* The entries of the table file in buf: the payload follows the 4-byte length
\* field and has the length the field declares.
FileEntries ==
    FileEntriesFrom(buf, 4, 4, 4 + UnpackUnsigned(Read(buf, 0, 4)))

\* C29: after SettingStringTable(file) succeeds, the offset the table assigns
\* to each string is the byte offset within the payload at which an encoding
\* of that string starts, and every offset at which an entry starts in the
\* payload is resolved by the table to that entry's string.
C29_OffsetsAreFileOffsets ==
    (last.op = "tableFromBinary" /\ last.err = "") =>
        /\ \A i \in 1..Len(table._strings) :
               [start |-> table._string_to_index[table._strings[i]],
                text |-> table._strings[i]] \in FileEntries
        /\ \A e \in FileEntries :
               /\ e.start \in DOMAIN table._index_to_string
               /\ table._index_to_string[e.start] = e.text


====
